---- MODULE Spec2Model ----
(***************************************************************************)
(* Verification model of ccbot (Telegram <-> tmux agent bridge).           *)
(*                                                                         *)
(* The module holds several independent state machines, one per subsystem, *)
(* each with its own specification:                                        *)
(*   SpecMonitor    - events.jsonl reader of SessionMonitor                *)
(*   SpecLoops      - the monitor loop and the status poll loop            *)
(*   SpecTranscript - transcript tailing by byte offset                    *)
(*   SpecResolve    - startup migration (window_resolver)                  *)
(*   SpecSession    - SessionManager bindings and state.json persistence   *)
(*   SpecQueue      - merge phase of the message queue consumer            *)
(*   SpecRateLimit  - per-chat rate limiter of the send layer              *)
(*   SpecSessionMap - hook processes updating session_map.json             *)
(***************************************************************************)
EXTENDS Integers, Sequences, FiniteSets, TLC

(***************************************************************************)
(* Bounds                                                                  *)
(***************************************************************************)
MaxEvLines == 2
MaxRestarts == 1
MaxStreak == 5
MaxTrLines == 2
MaxTrWrites == 3
MaxEmitted == 3
MaxSmOps == 3
MaxMqTasks == 4
MaxTime == 4
MaxSends == 3
MaxHookRuns == 1
MaxStTime == 3
MaxSpCalls == 3
MaxSpTime == 5
MaxIdLen == 2
MaxDcCalls == 2
MaxAcTime == 4
MaxUbTime == 3
MaxIuTime == 14
MaxIuPrompts == 2
MaxBcTasks == 4
MaxHwProcs == 3
MaxHaTime == 2

(***************************************************************************)
(* State.  Each subsystem has its own variables; a specification runs one  *)
(* subsystem and leaves the variables of the others at their initial       *)
(* values.                                                                 *)
(***************************************************************************)

\* events.jsonl, SessionMonitor._read_hook_events and the two loops
VARIABLES
    evFile,       \* events.jsonl: sequence of lines
    evAppended,   \* ghost: ids of the events hooks appended, in order
    evTruncated,  \* ghost: the file was truncated at some point
    evOffset,     \* SessionMonitor._events_offset of the current instance
    evDelivered,  \* ghost: ids the hook-event callback received, in order
    evCallback,   \* _hook_event_callback is set
    evRaised,     \* what made the last _read_hook_events call raise:
                  \* "none" | "parse" | "callback"
    monLoop,      \* "idle" | "running" | "stopped" | "crashed"
    monStreak,    \* error_streak of _monitor_loop
    monSleep,     \* delay of the last sleep of _monitor_loop
    monRestarts,  \* number of SessionMonitor instances created after the first
    pollLoop,     \* status_poll_loop: "running" | "cancelled" | "crashed"
    pollStreak,   \* _error_streak of status_poll_loop
    pollSleep     \* delay of the last sleep of status_poll_loop

monVars == <<evFile, evAppended, evTruncated, evOffset, evDelivered,
             evCallback, evRaised, monLoop, monStreak, monSleep, monRestarts,
             pollLoop, pollStreak, pollSleep>>

\* Transcript tailing for one session of an incremental (JSONL) provider
VARIABLES
    trFile,      \* the transcript: sequence of lines
    trNextId,    \* ghost: id of the next entry the agent writes
    trMtimeNew,  \* st_mtime of the file is later than _file_mtimes[session]
    trTracked,   \* a TrackedSession exists for the session
    trOffset,    \* TrackedSession.last_byte_offset
    trEmitted,   \* ghost: ids of the entries returned by the reads, in order
    trLastRead   \* ghost: what the last poll did:
                 \* [kind, reset, n]: whether it reset the offset to 0, the
                 \* number of entries it returned (kind "none": no poll yet)

trVars == <<trFile, trNextId, trMtimeNew, trTracked, trOffset, trEmitted,
            trLastRead>>

\* Startup migration of the persisted state (resolve_stale_ids)
VARIABLES
    rsLive,      \* live tmux windows: sequence of [window_id, window_name]
    rsStates,    \* persisted window_states: key -> [orig, window_name]
    rsBindings,  \* persisted thread_bindings: user -> thread -> window key
    rsOffsets,   \* persisted user_window_offsets: user -> window key -> offset
    rsNames,     \* persisted window_display_names: window id -> name
    rsOut,       \* the five dicts after resolve_stale_ids
    rsPc         \* "loaded" | "resolved"

rsVars == <<rsLive, rsStates, rsBindings, rsOffsets, rsNames, rsOut, rsPc>>

\* SessionManager (bindings, window metadata) and its StatePersistence
VARIABLES
    smBindings,      \* thread_bindings: user_id -> thread_id -> window_id
    smGroupChatIds,  \* group_chat_ids: "user:thread" -> chat_id
    smWindowStates,  \* window_states: window_id -> WindowState
    smDisplayNames,  \* window_display_names: window_id -> name
    smPersist,       \* StatePersistence: [dirty, timer, file]
    smFlushed,       \* flush_state() saved the state and nothing changed since
    smFresh,         \* [loaded, state]: the state a fresh SessionManager loaded
    smLastOp,        \* ghost: the last call, [op, user, thread, window]
    smOps            \* ghost: number of mutating calls so far

smVars == <<smBindings, smGroupChatIds, smWindowStates, smDisplayNames,
            smPersist, smFlushed, smFresh, smLastOp, smOps>>

\* Per-user message queue and its consumer's merge phase
VARIABLES
    mqQueue,   \* the user's asyncio.Queue of MessageTasks, head first
    mqNextId,  \* ghost: id of the next task enqueued
    mqBefore,  \* ghost: the queue as it was when the consumer last popped
    mqOut      \* the last pop: [popped, ids, count]: a task was popped, the
               \* ids of the tasks in the output, the number merged in

mqVars == <<mqQueue, mqNextId, mqBefore, mqOut>>

\* Send layer: the per-chat rate limiter and the coroutines sending through it
VARIABLES
    rlNow,    \* time.monotonic(), in ticks
    rlLast,   \* _last_send_time: chat_id -> time of the last send
    rlPc,     \* sender -> "idle" | "sleeping" (inside asyncio.sleep)
    rlWake,   \* sender -> the time its sleep ends
    rlChat,   \* sender -> the chat_id it is sending to
    rlSends   \* ghost: chat_id -> times of the Telegram sends, in order

rlVars == <<rlNow, rlLast, rlPc, rlWake, rlChat, rlSends>>

\* Hook processes updating session_map.json (hook._update_session_map)
VARIABLES
    hmFile,    \* session_map.json: key -> [session_id, window_name]
    hmFile0,   \* ghost: the file before any of the processes ran
    hmName,    \* process -> name of its tmux window
    hmLock,    \* holder of the flock on session_map.lock, or "none"
    hmPc,      \* process -> "start" | "waiting" | "locked" | "loaded" |
               \*            "written" | "done"
    hmLocal,   \* process -> its session_map dict
    hmWaited,  \* ghost: some process blocked in flock
    hmFault    \* ghost: a read or write of the map failed

hmVars == <<hmFile, hmFile0, hmName, hmLock, hmPc, hmLocal, hmWaited, hmFault>>

\* One hook invocation after another (hook._process_hook_stdin)
VARIABLES
    hkEvents,  \* events.jsonl: the lines written, as records
    hkMap,     \* session_map.json: key -> entry
    hkLast,    \* ghost: the input of the last invocation and the files
               \* before it
    hkRuns     \* number of invocations so far

hkVars == <<hkEvents, hkMap, hkLast, hkRuns>>

\* Status poller (handlers/status_polling.py) and the Stop hook handler
\* (handlers/hook_events.py), one user
VARIABLES
    stBound,    \* thread bindings: (user_id, thread_id) -> window_id
    stLive,     \* window ids tmux knows
    stNow,      \* time.monotonic(), in units of ten minutes
    stEmoji,    \* (user_id, thread_id) -> topic emoji state, "unset" before
                \* the first update_topic_emoji
    stTimers,   \* _autoclose_timers: (user_id, thread_id) -> [state, at]
    stDead,     \* _dead_notified: set of <<user_id, thread_id, window_id>>
    stSeen,     \* _has_seen_status
    stStartup,  \* keys of _startup_times
    stTodo,     \* poll cycle: bindings still to visit; <<>> when sleeping
    stPolling,  \* the poll loop is inside a cycle
    stSets,     \* ghost: update_topic_emoji calls of the current poll cycle,
                \* per binding
    stEnq,      \* ghost: status updates the last step enqueued
    stSent,     \* ghost: recovery messages delivered, per binding
    stLast      \* ghost: the last step: [op, key, w, sent]

stVars == <<stBound, stLive, stNow, stEmoji, stTimers, stDead, stSeen,
            stStartup, stTodo, stPolling, stSets, stEnq, stSent, stLast>>

\* session_map.json under the monitor's pruning and the hooks' writes
\* (session_monitor._monitor_loop, hook._update_session_map)
VARIABLES
    pmFile,    \* session_map.json: key -> entry
    pmWin,     \* tmux: window id -> "unborn" | "live" | "dead"
    pmPc,      \* position of the monitor loop in its cycle
    pmSnap,    \* live_window_ids of the cycle
    pmGone,    \* ghost: the windows that were dead when the cycle listed
    pmExpect   \* ghost: the cycle's starting file with the hooks' writes

pmVars == <<pmFile, pmWin, pmPc, pmSnap, pmGone, pmExpect>>

\* One StatePersistence object on the clock of its event loop
\* (state_persistence.py)
VARIABLES
    spPersist,     \* [dirty, timer, file] of the object
    spCalls,       \* version of the in-memory state: schedule_save calls
    spNow,         \* loop.time(), in units of 250 ms
    spDue,         \* when the armed timer handle fires (0 when none)
    spLastCall,    \* ghost: time of the last schedule_save call
    spBurst,       \* ghost: schedule_save calls since the last write
    spTimerWrites, \* ghost: timer-driven _do_save calls since the last
                   \* schedule_save call
    spSinceFlush,  \* ghost: flush ran and schedule_save has not since
    spLast         \* ghost: the last step, whether it called _do_save
                   \* and how atomic_write_json went

spVars == <<spPersist, spCalls, spNow, spDue, spLastCall, spBurst,
            spTimerWrites, spSinceFlush, spLast>>

\* One make_launch_args call of a provider (providers/*.py)
VARIABLES
    lpProvider,  \* "claude" | "codex" | "gemini"
    lpResumeId,  \* the resume_id argument, a sequence of characters
                 \* (<<>> for None and for "")
    lpContinue,  \* the use_continue argument
    lpResult     \* [done, raised, args] of the call

lpVars == <<lpProvider, lpResumeId, lpContinue, lpResult>>

\* Session-map change detection of the monitor loop
\* (session_monitor._detect_and_cleanup_changes)
VARIABLES
    dcMap,       \* session_map.json, this tmux session: window -> session id
    dcLastMap,   \* SessionMonitor._last_session_map
    dcPrevMap,   \* ghost: the map the previous cycle (or the start) loaded
    dcTrack,     \* session ids with a TrackedSession, a _file_mtimes entry,
                 \* a _pending_tools entry, a _last_activity entry:
                 \* [tracked, mtimes, pending, activity], four sets
    dcCalls,     \* ghost: window -> number of new-window callback calls
    dcLoop,      \* _monitor_loop: "idle" | "running" | "crashed"
    dcLast       \* ghost: the last step [op, io, removed]

dcVars == <<dcMap, dcLastMap, dcPrevMap, dcTrack, dcCalls, dcLoop, dcLast>>

\* One bound topic under the status poller, with its auto-close
\* configuration (handlers/status_polling.py, handlers/hook_events.py)
VARIABLES
    acS,            \* the module-level state of status_polling.py, as StState
    acLive,         \* tmux still has the bound window
    acNow,          \* time.monotonic(), in units of ten minutes
    acConfig,       \* config: [done_minutes, dead_minutes], same units
    acPc,           \* status_poll_loop: "sleep" | "polled" (before the timer
                    \* checks of the cycle)
    acSinceStop,    \* ghost: a Stop event put the topic in done and no poll
                    \* has seen a status line, transcript activity or a
                    \* shell since
    acClosedDone,   \* ghost: the topic was auto-closed in its present done
                    \* period
    acPeriodCloses, \* ghost: close_forum_topic calls of the present done
                    \* period
    acLast          \* ghost: the last step [op, obs, closed, ok]

acVars == <<acS, acLive, acNow, acConfig, acPc, acSinceStop, acClosedDone,
            acPeriodCloses, acLast>>

\* The unbound-window TTL check of the status poller
\* (status_polling._check_unbound_window_ttl)
VARIABLES
    ubBound,     \* window ids some thread binding points to
    ubLive,      \* window ids tmux knows
    ubTimers,    \* _unbound_window_timers: window id -> first seen unbound
    ubNow,       \* time.monotonic(), in units of ten minutes
    ubTimeout,   \* config.autoclose_done_minutes, same units
    ubPc,        \* the check: "idle" | "listing" (awaiting list_windows)
                 \* | "killing" (awaiting kill_window calls)
    ubBoundIds,  \* the check's local bound_ids
    ubExpired,   \* the check's local expired list, what is left of it
    ubLast       \* ghost: the last step [op, w]

ubVars == <<ubBound, ubLive, ubTimers, ubNow, ubTimeout, ubPc, ubBoundIds,
            ubExpired, ubLast>>

\* The periodic topic existence probe of the status poller
\* (status_polling.status_poll_loop)
VARIABLES
    tpBound,    \* thread bindings: (user_id, thread_id) -> window_id
    tpLive,     \* window ids tmux knows
    tpDeleted,  \* topics deleted in Telegram, as binding keys
    tpState,    \* topics with per-topic state in the handlers (auto-close
                \* timer, dead notification, typing throttle)
    tpTodo,     \* the probe loop: bindings still to probe
    tpPc,       \* "idle" | "probing"
    tpKilled,   \* ghost: windows the probe has killed
    tpLast      \* ghost: the last step [op, key, w, result]

tpVars == <<tpBound, tpLive, tpDeleted, tpState, tpTodo, tpPc, tpKilled,
            tpLast>>

\* Interactive mode of one bound topic: the status poll and the
\* Notification hook handler (status_polling.update_status_message,
\* hook_events._handle_notification)
VARIABLES
    iuMode,     \* get_interactive_window(user, thread): "none" | "this" (the
                \* bound window) | "other" (another window)
    iuPrompt,   \* the prompt the agent is waiting at: its number, 0 for none
    iuShown,    \* the pane shows the interactive UI of the prompt
    iuCount,    \* prompts so far
    iuPending,  \* Notification events written, not yet dispatched
    iuHandler,  \* _handle_notification: [pc, wake, prompt]; pc "idle" or
                \* "settling" (in asyncio.sleep until wake)
    iuNow,      \* time.monotonic(), in tenths of a second
    iuNextPoll, \* earliest time of the binding's next status poll
    iuRenders,  \* ghost: prompt number -> interactive UI renders
    iuLast      \* ghost: the last step [op, mode, ui, render, status]

iuVars == <<iuMode, iuPrompt, iuShown, iuCount, iuPending, iuHandler, iuNow,
            iuNextPoll, iuRenders, iuLast>>

\* Bash-capture tasks of the text handler (handlers/text_handler.py)
VARIABLES
    bcReg,    \* _bash_capture_tasks: (user_id, thread_id) -> task, 0 for no
              \* entry
    bcTasks,  \* the capture tasks created so far: sequence of [key, state],
              \* state "running" | "cancelling" (cancel() called, cleanup
              \* block not yet run) | "done"
    bcLast    \* ghost: the last step [op, task]

bcVars == <<bcReg, bcTasks, bcLast>>

\* Hook processes appending to events.jsonl (hook.py _write_event)
VARIABLES
    hwPc,        \* per hook process: "start" | "written" (flock held, line
                 \* handed to f.write) | "unlocked" | "closed"
    hwLock,      \* the process that holds the flock on events.jsonl, 0 for
                 \* none
    hwBuffered,  \* the processes whose line is still in the buffer of
                 \* their file object
    hwFile,      \* events.jsonl: the processes' lines in file order
    hwLockOrder, \* ghost: the processes in the order they took the flock
    hwLast       \* ghost: the last step [op, p]

hwVars == <<hwPc, hwLock, hwBuffered, hwFile, hwLockOrder, hwLast>>

\* Hook activity of the session monitor (record_hook_activity)
VARIABLES
    haRaw,      \* session_map.json: raw key, a sequence <<tmux session,
                \* window>> standing for "tmux_session:window" -> session_id
    haLastMap,  \* SessionMonitor._last_session_map: key as
                \* parse_session_map returns it -> session_id
    haActivity, \* SessionMonitor._last_activity: session_id -> time
    haNow,      \* time.monotonic()
    haLast      \* ghost: the last step [op, w]

haVars == <<haRaw, haLastMap, haActivity, haNow, haLast>>

nonMonVars == <<trVars, rsVars, smVars, mqVars, rlVars, hmVars, hkVars,
                stVars, pmVars, spVars, lpVars, dcVars, acVars, ubVars,
                tpVars, iuVars, bcVars, hwVars, haVars>>
nonTrVars == <<monVars, rsVars, smVars, mqVars, rlVars, hmVars, hkVars,
               stVars, pmVars, spVars, lpVars, dcVars, acVars, ubVars,
               tpVars, iuVars, bcVars, hwVars, haVars>>
nonRsVars == <<monVars, trVars, smVars, mqVars, rlVars, hmVars, hkVars,
               stVars, pmVars, spVars, lpVars, dcVars, acVars, ubVars,
               tpVars, iuVars, bcVars, hwVars, haVars>>
nonSmVars == <<monVars, trVars, rsVars, mqVars, rlVars, hmVars, hkVars,
               stVars, pmVars, spVars, lpVars, dcVars, acVars, ubVars,
               tpVars, iuVars, bcVars, hwVars, haVars>>
nonMqVars == <<monVars, trVars, rsVars, smVars, rlVars, hmVars, hkVars,
               stVars, pmVars, spVars, lpVars, dcVars, acVars, ubVars,
               tpVars, iuVars, bcVars, hwVars, haVars>>
nonRlVars == <<monVars, trVars, rsVars, smVars, mqVars, hmVars, hkVars,
               stVars, pmVars, spVars, lpVars, dcVars, acVars, ubVars,
               tpVars, iuVars, bcVars, hwVars, haVars>>
nonHmVars == <<monVars, trVars, rsVars, smVars, mqVars, rlVars, hkVars,
               stVars, pmVars, spVars, lpVars, dcVars, acVars, ubVars,
               tpVars, iuVars, bcVars, hwVars, haVars>>
nonHkVars == <<monVars, trVars, rsVars, smVars, mqVars, rlVars, hmVars,
               stVars, pmVars, spVars, lpVars, dcVars, acVars, ubVars,
               tpVars, iuVars, bcVars, hwVars, haVars>>
nonStVars == <<monVars, trVars, rsVars, smVars, mqVars, rlVars, hmVars,
               hkVars, pmVars, spVars, lpVars, dcVars, acVars, ubVars,
               tpVars, iuVars, bcVars, hwVars, haVars>>
nonPmVars == <<monVars, trVars, rsVars, smVars, mqVars, rlVars, hmVars,
               hkVars, stVars, spVars, lpVars, dcVars, acVars, ubVars,
               tpVars, iuVars, bcVars, hwVars, haVars>>
nonSpVars == <<monVars, trVars, rsVars, smVars, mqVars, rlVars, hmVars,
               hkVars, stVars, pmVars, lpVars, dcVars, acVars, ubVars,
               tpVars, iuVars, bcVars, hwVars, haVars>>
nonLpVars == <<monVars, trVars, rsVars, smVars, mqVars, rlVars, hmVars,
               hkVars, stVars, pmVars, spVars, dcVars, acVars, ubVars,
               tpVars, iuVars, bcVars, hwVars, haVars>>
nonDcVars == <<monVars, trVars, rsVars, smVars, mqVars, rlVars, hmVars,
               hkVars, stVars, pmVars, spVars, lpVars, acVars, ubVars,
               tpVars, iuVars, bcVars, hwVars, haVars>>
nonAcVars == <<monVars, trVars, rsVars, smVars, mqVars, rlVars, hmVars,
               hkVars, stVars, pmVars, spVars, lpVars, dcVars, ubVars,
               tpVars, iuVars, bcVars, hwVars, haVars>>
nonUbVars == <<monVars, trVars, rsVars, smVars, mqVars, rlVars, hmVars,
               hkVars, stVars, pmVars, spVars, lpVars, dcVars, acVars,
               tpVars, iuVars, bcVars, hwVars, haVars>>
nonTpVars == <<monVars, trVars, rsVars, smVars, mqVars, rlVars, hmVars,
               hkVars, stVars, pmVars, spVars, lpVars, dcVars, acVars,
               ubVars, iuVars, bcVars, hwVars, haVars>>
nonIuVars == <<monVars, trVars, rsVars, smVars, mqVars, rlVars, hmVars,
               hkVars, stVars, pmVars, spVars, lpVars, dcVars, acVars,
               ubVars, tpVars, bcVars, hwVars, haVars>>
nonBcVars == <<monVars, trVars, rsVars, smVars, mqVars, rlVars, hmVars,
               hkVars, stVars, pmVars, spVars, lpVars, dcVars, acVars,
               ubVars, tpVars, iuVars, hwVars, haVars>>
nonHwVars == <<monVars, trVars, rsVars, smVars, mqVars, rlVars, hmVars,
               hkVars, stVars, pmVars, spVars, lpVars, dcVars, acVars,
               ubVars, tpVars, iuVars, bcVars, haVars>>
nonHaVars == <<monVars, trVars, rsVars, smVars, mqVars, rlVars, hmVars,
               hkVars, stVars, pmVars, spVars, lpVars, dcVars, acVars,
               ubVars, tpVars, iuVars, bcVars, hwVars>>

vars == <<monVars, trVars, rsVars, smVars, mqVars, rlVars, hmVars, hkVars,
          stVars, pmVars, spVars, lpVars, dcVars, acVars, ubVars, tpVars,
          iuVars, bcVars, hwVars, haVars>>

(***************************************************************************)
(* Generic helpers                                                         *)
(***************************************************************************)
Min(a, b) == IF a <= b THEN a ELSE b

RECURSIVE Pow2(_)
Pow2(n) == IF n = 0 THEN 1 ELSE 2 * Pow2(n - 1)

IsPrefix(s, t) == Len(s) <= Len(t) /\ SubSeq(t, 1, Len(s)) = s

(***************************************************************************)
(* Text files as sequences of lines.  A line is [kind, id]; a blank line   *)
(* is the single newline byte, a line still being written ("partial") has  *)
(* its first byte only (content and newline are still to come), every      *)
(* other line is LineBytes bytes long (content and newline).  Offsets are  *)
(* byte offsets, as f.tell() returns them.                                 *)
(***************************************************************************)
LineBytes == 3

LineLen(l) ==
    CASE l.kind = "blank" -> 1
      [] l.kind = "partial" -> LineBytes - 2
      [] OTHER -> LineBytes

RECURSIVE FileSize(_)
FileSize(f) == IF f = <<>> THEN 0 ELSE LineLen(Head(f)) + FileSize(Tail(f))

\* What iterating the file from byte offset `off` yields: the sequence of
\* [kind, id, end] where end is f.tell() after the line.  When off falls
\* inside a line the first item is the tail of that line: a lone newline
\* (blank) or an unparseable fragment.
RECURSIVE LinesFrom(_, _, _)
LinesFrom(f, start, off) ==
    IF f = <<>> THEN <<>>
    ELSE LET h == Head(f)
             e == start + LineLen(h)
         IN IF e <= off THEN LinesFrom(Tail(f), e, off)
            ELSE IF start >= off
                 THEN <<[kind |-> h.kind, id |-> h.id, end |-> e]>>
                      \o LinesFrom(Tail(f), e, off)
                 ELSE <<[kind |-> IF e - off = 1 /\ h.kind # "partial"
                                  THEN "blank" ELSE "fragment",
                         id |-> 0, end |-> e]>>
                      \o LinesFrom(Tail(f), e, off)

(***************************************************************************)
(* events.jsonl and SessionMonitor._read_hook_events                       *)
(***************************************************************************)

\* Line kinds that can stand in events.jsonl:
\*   event     - a JSON object with the event fields
\*   nofields  - a JSON object without them, e.g. {}
\*   nonobject - valid JSON that is not an object, e.g. [1]
\*   malformed - not JSON
\*   blank     - empty line
\* and, while a hook process is writing it, the first bytes of an event
\* line ("partial"), which json.loads rejects like a malformed line.
EvKinds == {"event", "nofields", "nonobject", "malformed", "blank"}

\* The events (ids) stored in whole lines of a file, in file order.
RECURSIVE EventsOf(_)
EventsOf(f) ==
    IF f = <<>> THEN <<>>
    ELSE (IF Head(f).kind = "event" THEN <<Head(f).id>> ELSE <<>>)
         \o EventsOf(Tail(f))

\* Exception classes the I/O steps of a cycle raise (file reads, tmux
\* subprocesses, JSON decoding, Telegram calls), and the classes a registered
\* callback may raise (any).
ExcClasses == {"OSError", "JSONDecodeError", "TelegramError"}
CallbackExcClasses == ExcClasses \cup {"KeyError"}

IsSubclass(c, base) ==
    \/ c = base
    \/ c = "JSONDecodeError" /\ base = "ValueError"

_CallbackError == {"OSError", "RuntimeError", "TelegramError"}
_LoopErrorMonitor == {"OSError", "RuntimeError", "JSONDecodeError",
                      "ValueError", "TelegramError"}
_LoopErrorPoll == {"TelegramError", "OSError", "RuntimeError", "ValueError"}

Caught(c, clause) == \E b \in clause : IsSubclass(c, b)

_BACKOFF_MIN == 2
_BACKOFF_MAX == 30

BackoffDelay(streak) == Min(_BACKOFF_MAX, _BACKOFF_MIN * Pow2(streak))

\* The body of the `async for line in f` loop of _read_hook_events.
\* lines: what is left to read; off: _events_offset; out: events handed to
\* the callback in this call; cbExc: the exception class the callback raises
\* on the cbAt-th event of this call (cbAt = 0: it never raises).
\* Result: the offset, the events handed over, the exception class that left
\* the function ("none" if it returned) and what raised it.
RECURSIVE ScanEvents(_, _, _, _, _)
ScanEvents(lines, off, out, cbAt, cbExc) ==
    IF lines = <<>>
    THEN [offset |-> off, out |-> out, exc |-> "none", by |-> "none"]
    ELSE LET h == Head(lines) IN
         CASE h.kind \in {"blank", "malformed", "fragment", "partial"} ->
                  ScanEvents(Tail(lines), h.end, out, cbAt, cbExc)
           [] h.kind = "nonobject" ->
                  \* data.get(...) on a list/number/string: AttributeError,
                  \* raised before the offset is advanced
                  [offset |-> off, out |-> out, exc |-> "AttributeError",
                   by |-> "parse"]
           [] OTHER ->
                  LET out2 == Append(out, h.id) IN
                  IF Len(out2) = cbAt /\ ~Caught(cbExc, _CallbackError)
                  THEN [offset |-> h.end, out |-> out2, exc |-> cbExc,
                        by |-> "callback"]
                  ELSE ScanEvents(Tail(lines), h.end, out2, cbAt, cbExc)

\* _read_hook_events: result of one call on the current state.
\* io = "oserror": opening the file fails, the except OSError clause logs.
ReadHookEvents(cbAt, cbExc, io) ==
    IF ~evCallback \/ io = "oserror"
    THEN [offset |-> evOffset, out |-> <<>>, exc |-> "none", by |-> "none"]
    ELSE LET start == IF evOffset > FileSize(evFile) THEN 0 ELSE evOffset
         IN ScanEvents(LinesFrom(evFile, 0, start), start, <<>>, cbAt, cbExc)

MONITOR_POLL_INTERVAL == 2
STATUS_POLL_INTERVAL == 1

MonInit ==
    /\ evFile = <<>>
    /\ evAppended = <<>>
    /\ evTruncated = FALSE
    /\ evOffset = 0
    /\ evDelivered = <<>>
    /\ evCallback = FALSE
    /\ evRaised = "none"
    /\ monLoop = "idle"
    /\ monStreak = 0
    /\ monSleep = 0
    /\ monRestarts = 0
    /\ pollLoop = "running"
    /\ pollStreak = 0
    /\ pollSleep = 0

evFileVars == <<evFile, evAppended, evTruncated>>
evReaderVars == <<evOffset, evDelivered, evCallback, evRaised>>
monLoopVars == <<monLoop, monStreak, monSleep, monRestarts>>
pollLoopVars == <<pollLoop, pollStreak, pollSleep>>

\* hook.py _write_event: one event line appended under flock.
WriteEvent ==
    /\ Len(evFile) < MaxEvLines
    /\ evFile' = Append(evFile, [kind |-> "event", id |-> Len(evAppended) + 1])
    /\ evAppended' = Append(evAppended, Len(evAppended) + 1)
    /\ UNCHANGED <<evTruncated, evReaderVars, monLoopVars, pollLoopVars>>
    /\ UNCHANGED nonMonVars

\* Any other content reaching events.jsonl (disk corruption, a foreign
\* writer): a line that is not an event.
WriteOtherLine(kind) ==
    /\ Len(evFile) < MaxEvLines
    /\ evFile' = Append(evFile, [kind |-> kind, id |-> 0])
    /\ UNCHANGED <<evAppended, evTruncated, evReaderVars, monLoopVars,
                   pollLoopVars>>
    /\ UNCHANGED nonMonVars

\* events.jsonl is truncated (rotated or cleared by the operator).
TruncateEvents ==
    /\ ~evTruncated
    /\ evFile # <<>>
    /\ evFile' = <<>>
    /\ evTruncated' = TRUE
    /\ UNCHANGED <<evAppended, evReaderVars, monLoopVars, pollLoopVars>>
    /\ UNCHANGED nonMonVars

SetHookEventCallback ==
    /\ ~evCallback
    /\ evCallback' = TRUE
    /\ UNCHANGED <<evFileVars, evOffset, evDelivered, evRaised, monLoopVars,
                   pollLoopVars>>
    /\ UNCHANGED nonMonVars

\* SessionMonitor.start(): creates the _monitor_loop task.
MonitorStart ==
    /\ monLoop = "idle"
    /\ monLoop' = "running"
    /\ monStreak' = 0
    /\ UNCHANGED <<evFileVars, evReaderVars, monSleep, monRestarts,
                   pollLoopVars>>
    /\ UNCHANGED nonMonVars

\* One iteration of the while loop of _monitor_loop.  rest: the exception
\* class raised by the steps after _read_hook_events ("none": they succeed).
MonitorCycle(cbAt, cbExc, io, rest) ==
    /\ monLoop = "running"
    /\ LET r == ReadHookEvents(cbAt, cbExc, io)
           exc == IF r.exc # "none" THEN r.exc ELSE rest
       IN /\ evOffset' = r.offset
          /\ evDelivered' = evDelivered \o r.out
          /\ evRaised' = r.by
          /\ IF exc = "none"
             THEN /\ monStreak' = 0
                  /\ monSleep' = MONITOR_POLL_INTERVAL
                  /\ monLoop' = monLoop
             ELSE IF Caught(exc, _LoopErrorMonitor)
             THEN /\ monStreak < MaxStreak
                  /\ monSleep' = BackoffDelay(monStreak)
                  /\ monStreak' = monStreak + 1
                  /\ monLoop' = monLoop
             ELSE \* the exception leaves the task: its locals are gone
                  /\ monLoop' = "crashed"
                  /\ monStreak' = 0
                  /\ monSleep' = 0
    /\ UNCHANGED <<evFileVars, evCallback, monRestarts, pollLoopVars>>
    /\ UNCHANGED nonMonVars

\* SessionMonitor.stop(): cancels the task and saves MonitorState.
MonitorStop ==
    /\ monLoop \in {"running", "crashed"}
    /\ monLoop' = "stopped"
    /\ monStreak' = 0
    /\ monSleep' = 0
    /\ UNCHANGED <<evFileVars, evReaderVars, monRestarts, pollLoopVars>>
    /\ UNCHANGED nonMonVars

\* SessionMonitor.__init__ of a new instance on the same state directory.
NewSessionMonitor ==
    /\ monLoop = "stopped"
    /\ monRestarts < MaxRestarts
    /\ monRestarts' = monRestarts + 1
    /\ monLoop' = "idle"
    /\ evOffset' = 0
    /\ evCallback' = FALSE
    /\ evRaised' = "none"
    /\ UNCHANGED <<evFileVars, evDelivered, monStreak, monSleep, pollLoopVars>>
    /\ UNCHANGED nonMonVars

\* One iteration of the while loop of status_poll_loop.  exc is raised in
\* section `where` of the cycle: the topic probe and the per-binding update
\* have their own except clauses, the timer checks have none.
PollInnerCaught(exc, where) ==
    \/ where = "probe" /\ Caught(exc, {"TelegramError"})
    \/ where = "binding" /\ Caught(exc, {"TelegramError", "OSError"})

PollCycle(exc, where) ==
    /\ pollLoop = "running"
    /\ IF exc = "none" \/ PollInnerCaught(exc, where)
       THEN /\ pollStreak' = 0
            /\ pollSleep' = STATUS_POLL_INTERVAL
            /\ pollLoop' = pollLoop
       ELSE IF Caught(exc, _LoopErrorPoll)
       THEN /\ pollStreak < MaxStreak
            /\ pollSleep' = BackoffDelay(pollStreak)
            /\ pollStreak' = pollStreak + 1
            /\ pollLoop' = pollLoop
       ELSE /\ pollLoop' = "crashed"
            /\ pollStreak' = 0
            /\ pollSleep' = 0
    /\ UNCHANGED <<evFileVars, evReaderVars, monLoopVars>>
    /\ UNCHANGED nonMonVars

\* The status_poll_loop task is cancelled at shutdown.
PollCancel ==
    /\ pollLoop = "running"
    /\ pollLoop' = "cancelled"
    /\ pollStreak' = 0
    /\ pollSleep' = 0
    /\ UNCHANGED <<evFileVars, evReaderVars, monLoopVars>>
    /\ UNCHANGED nonMonVars

\* SpecMonitor: hooks write events.jsonl while SessionMonitor instances read
\* it; the steps of a cycle after _read_hook_events succeed.
MonNext ==
    \/ WriteEvent
    \/ \E k \in EvKinds \ {"event"} : WriteOtherLine(k)
    \/ TruncateEvents
    \/ SetHookEventCallback
    \/ MonitorStart
    \/ \E cbAt \in 0..MaxEvLines, cbExc \in {"TelegramError", "KeyError"},
          io \in {"ok", "oserror"} : MonitorCycle(cbAt, cbExc, io, "none")
    \/ MonitorStop
    \/ NewSessionMonitor

\* SpecLoops: the two background loops over a fixed events.jsonl; any step
\* of a cycle may raise.
LoopsInit ==
    /\ evFile \in {<<>>} \cup {<<[kind |-> k, id |-> IF k = "event" THEN 1 ELSE 0]>> :
                                k \in {"event", "nonobject", "malformed"}}
    /\ evAppended = EventsOf(evFile)
    /\ evTruncated = FALSE
    /\ evOffset = 0
    /\ evDelivered = <<>>
    /\ evCallback = FALSE
    /\ evRaised = "none"
    /\ monLoop = "idle"
    /\ monStreak = 0
    /\ monSleep = 0
    /\ monRestarts = 0
    /\ pollLoop = "running"
    /\ pollStreak = 0
    /\ pollSleep = 0

LoopsNext ==
    \/ SetHookEventCallback
    \/ MonitorStart
    \/ \E cbAt \in 0..1, cbExc \in CallbackExcClasses,
          rest \in ExcClasses \cup {"none"} :
          MonitorCycle(cbAt, cbExc, "ok", rest)
    \/ MonitorStop
    \/ \E exc \in ExcClasses \cup {"none"},
          where \in {"probe", "binding", "timers"} : PollCycle(exc, where)
    \/ PollCancel

\* C1: without truncation and with only event lines in events.jsonl, the
\* callback has received a prefix of the appended events, each once and in
\* append order, and all of them once the reader has reached the end of the
\* file -- also after a new SessionMonitor instance took over.
EventsExactlyOnceInOrder ==
    (~evTruncated /\ EventsOf(evFile) = evAppended
        /\ Len(evFile) = Len(evAppended))
    => /\ IsPrefix(evDelivered, evAppended)
       /\ (evOffset = FileSize(evFile) /\ evCallback /\ monLoop = "running"
              => evDelivered = evAppended)

\* C8: neither loop ends because of an error raised inside a cycle.
LoopsNeverDie == monLoop # "crashed" /\ pollLoop # "crashed"

\* C9: no content of events.jsonl makes _read_hook_events raise, and no
\* line that is not a valid event reaches the callback.
ReadSkipsInvalidLines ==
    /\ evRaised # "parse"
    /\ \A i \in 1..Len(evDelivered) : evDelivered[i] # 0

(***************************************************************************)
(* Transcript tailing: SessionMonitor._process_session_file and            *)
(* _read_new_lines for one session of an incremental (JSONL) provider      *)
(***************************************************************************)

\* Line kinds of a transcript:
\*   entry   - a complete line holding a JSON object
\*   blank   - an empty line
\*   partial - the first bytes of a line the agent is still writing
\*   corrupt - a complete line parse_transcript_line rejects
TrKinds == {"entry", "blank", "partial", "corrupt"}

\* provider.parse_transcript_line: a dict for a line holding a JSON object,
\* None for anything else.
ParsesAsEntry(kind) == kind = "entry"

\* A read loop that moves safe_offset past the line it stops at.
RECURSIVE ScanTranscriptPastBadLine(_, _, _)
ScanTranscriptPastBadLine(lines, safe, out) ==
    IF lines = <<>> THEN [offset |-> safe, out |-> out]
    ELSE LET h == Head(lines) IN
         IF ParsesAsEntry(h.kind)
         THEN ScanTranscriptPastBadLine(Tail(lines), h.end,
                                        Append(out, h.id))
         ELSE IF h.kind # "blank"
         THEN [offset |-> h.end, out |-> out]
         ELSE ScanTranscriptPastBadLine(Tail(lines), h.end, out)

\* The `async for line in f` loop of _read_new_lines.
RECURSIVE ScanTranscript(_, _, _)
ScanTranscript(lines, safe, out) ==
    IF lines = <<>> THEN [offset |-> safe, out |-> out]
    ELSE LET h == Head(lines) IN
         IF ParsesAsEntry(h.kind)
         THEN ScanTranscript(Tail(lines), h.end, Append(out, h.id))
         ELSE IF h.kind # "blank"
         THEN [offset |-> safe, out |-> out]
         ELSE ScanTranscript(Tail(lines), h.end, out)

\* A read whose safe_offset starts at 0 instead of at the stored offset.
ReadNewLinesFromZero(file, off, io) ==
    IF io = "open_oserror" THEN [offset |-> off, out |-> <<>>]
    ELSE LET start == IF off > FileSize(file) THEN 0 ELSE off
             r == ScanTranscript(LinesFrom(file, 0, start), 0, <<>>)
         IN IF io = "read_oserror"
            THEN [offset |-> start, out |-> r.out]
            ELSE r

\* _read_new_lines on a file with stored offset `off`: the new offset and
\* the entries returned.  io = "open_oserror": the open fails;
\* io = "read_oserror": a read fails after the lines were parsed, before
\* session.last_byte_offset = safe_offset.
ReadNewLines(file, off, io) ==
    IF io = "open_oserror" THEN [offset |-> off, out |-> <<>>]
    ELSE LET start == IF off > FileSize(file) THEN 0 ELSE off
             r == ScanTranscript(LinesFrom(file, 0, start), start, <<>>)
         IN IF io = "read_oserror"
            THEN [offset |-> start, out |-> r.out]
            ELSE r

TrInit ==
    /\ trFile = <<>>
    /\ trNextId = 1
    /\ trMtimeNew = FALSE
    /\ trTracked = FALSE
    /\ trOffset = 0
    /\ trEmitted = <<>>
    /\ trLastRead = [kind |-> "none", reset |-> FALSE, n |-> 0]

TrLastPartial == trFile # <<>> /\ trFile[Len(trFile)].kind = "partial"

\* A write to the file: st_mtime moves on, unless the write falls into the
\* same timestamp granule as the last stat the monitor cached.
TrTouched(bumps) == trMtimeNew' = (trMtimeNew \/ bumps)

\* The agent appends a complete line.
TrAppendLine(kind, bumps) ==
    /\ Len(trFile) < MaxTrLines
    /\ ~TrLastPartial
    /\ kind \in {"entry", "blank", "corrupt"}
    /\ kind = "entry" => trNextId <= MaxTrWrites
    /\ trFile' = Append(trFile, [kind |-> kind,
                                 id |-> IF kind = "entry" THEN trNextId ELSE 0])
    /\ trNextId' = IF kind = "entry" THEN trNextId + 1 ELSE trNextId
    /\ TrTouched(bumps)
    /\ UNCHANGED <<trTracked, trOffset, trEmitted, trLastRead>>
    /\ UNCHANGED nonTrVars

\* The agent has written the first bytes of a line.
TrBeginWrite(bumps) ==
    /\ Len(trFile) < MaxTrLines
    /\ ~TrLastPartial
    /\ trNextId <= MaxTrWrites
    /\ trFile' = Append(trFile, [kind |-> "partial", id |-> trNextId])
    /\ trNextId' = trNextId + 1
    /\ TrTouched(bumps)
    /\ UNCHANGED <<trTracked, trOffset, trEmitted, trLastRead>>
    /\ UNCHANGED nonTrVars

\* The agent writes the rest of the line.
TrCompleteWrite(bumps) ==
    /\ TrLastPartial
    /\ trFile' = [trFile EXCEPT ![Len(trFile)].kind = "entry"]
    /\ TrTouched(bumps)
    /\ UNCHANGED <<trNextId, trTracked, trOffset, trEmitted, trLastRead>>
    /\ UNCHANGED nonTrVars

\* The transcript is truncated to its first `keep` lines (/clear empties
\* it); the agent then writes new content.
TrTruncate(keep, bumps) ==
    /\ trFile # <<>>
    /\ keep < Len(trFile)
    /\ trFile' = SubSeq(trFile, 1, keep)
    /\ TrTouched(bumps)
    /\ UNCHANGED <<trNextId, trTracked, trOffset, trEmitted, trLastRead>>
    /\ UNCHANGED nonTrVars

\* _process_session_file for the session.  stat, io: outcomes of the
\* file_path.stat() call and of opening the file.
ProcessSessionFile(stat, io) ==
    /\ IF ~trTracked
       THEN \* first sight: start at the end of the file
            /\ trTracked' = TRUE
            /\ trOffset' = IF stat = "oserror" THEN 0 ELSE FileSize(trFile)
            /\ trMtimeNew' = IF stat = "oserror" THEN trMtimeNew ELSE FALSE
            /\ trLastRead' = [kind |-> "init", reset |-> FALSE, n |-> 0]
            /\ UNCHANGED trEmitted
       ELSE IF stat = "oserror"
               \/ (~trMtimeNew /\ FileSize(trFile) <= trOffset)
       THEN /\ trLastRead' = [kind |-> "skip", reset |-> FALSE, n |-> 0]
            /\ UNCHANGED <<trTracked, trOffset, trMtimeNew, trEmitted>>
       ELSE LET r == ReadNewLines(trFile, trOffset, io) IN
            /\ Len(trEmitted) + Len(r.out) <= MaxEmitted
            /\ trOffset' = r.offset
            /\ trEmitted' = trEmitted \o r.out
            /\ trMtimeNew' = FALSE
            /\ trLastRead' = [kind |-> "read",
                              reset |-> (io # "open_oserror"
                                         /\ trOffset > FileSize(trFile)),
                              n |-> Len(r.out)]
            /\ UNCHANGED trTracked
    /\ UNCHANGED <<trFile, trNextId>>
    /\ UNCHANGED nonTrVars

\* _detect_and_cleanup_changes removes the tracked session (its window left
\* the session map or now runs another session).
TrRemoveSession ==
    /\ trTracked
    /\ trTracked' = FALSE
    /\ trOffset' = 0
    /\ trMtimeNew' = TRUE
    /\ trLastRead' = [kind |-> "none", reset |-> FALSE, n |-> 0]
    /\ UNCHANGED <<trFile, trNextId, trEmitted>>
    /\ UNCHANGED nonTrVars

TrNext ==
    \/ \E k \in {"entry", "blank", "corrupt"}, b \in BOOLEAN : TrAppendLine(k, b)
    \/ \E b \in BOOLEAN : TrBeginWrite(b)
    \/ \E b \in BOOLEAN : TrCompleteWrite(b)
    \/ \E b \in BOOLEAN : TrTruncate(0, b)
    \/ \E stat \in {"ok", "oserror"},
          io \in {"ok", "open_oserror", "read_oserror"} :
          ProcessSessionFile(stat, io)
    \/ TrRemoveSession

\* C2: while a session stays tracked, last_byte_offset does not decrease,
\* except in a poll that finds the file smaller than the stored offset; that
\* poll restarts from offset 0, so it ends at an offset within the file.
OffsetMonotoneUnlessTruncated ==
    [][(trTracked /\ trTracked')
         => \/ trOffset' >= trOffset
            \/ /\ FileSize(trFile) < trOffset
               /\ trOffset' <= FileSize(trFile)]_vars

\* C2 witness: a poll of a tracked session found the file smaller than the
\* stored offset, restarted from 0 and read the rewritten content.
OffsetResetOnTruncation ==
    /\ trTracked
    /\ trLastRead.kind = "read"
    /\ trLastRead.reset
    /\ trOffset > 0
    /\ trLastRead.n > 0

\* The entries a read of the whole file from byte 0 returns.
TrWholeRead(file) == ScanTranscript(LinesFrom(file, 0, 0), 0, <<>>)

\* Ids emitted so far.
TrEmittedIds == {trEmitted[i] : i \in 1..Len(trEmitted)}

\* The transcript with writes, truncations to empty or to the first line,
\* and polls in which neither stat() nor the read fails.
TrNextNoFault ==
    \/ \E k \in {"entry", "blank", "corrupt"}, b \in BOOLEAN : TrAppendLine(k, b)
    \/ \E b \in BOOLEAN : TrBeginWrite(b)
    \/ \E b \in BOOLEAN : TrCompleteWrite(b)
    \/ \E keep \in {0, 1}, b \in BOOLEAN : TrTruncate(keep, b)
    \/ ProcessSessionFile("ok", "ok")
    \/ TrRemoveSession

\* A step that is a poll of the tracked session finding the file smaller
\* than the stored offset.
TrPollOfTruncated ==
    /\ trTracked /\ trTracked'
    /\ trFile' = trFile
    /\ FileSize(trFile) < trOffset
    /\ trLastRead'.kind \in {"read", "skip"}

\* C13: the poll after a truncation that left the file smaller than the
\* stored offset resets the offset to 0, reads the file from byte 0 and
\* emits each message of the new content once; no message emitted before
\* the truncation is emitted again.
TruncationRereadsOnce ==
    [][TrPollOfTruncated =>
         LET r == TrWholeRead(trFile) IN
         /\ trLastRead'.kind = "read"
         /\ trOffset' = r.offset
         /\ trEmitted' = trEmitted \o r.out
         /\ \A i \in 1..Len(r.out) : r.out[i] \notin TrEmittedIds]_vars

\* The transcript of a session that is only appended to, with polls in which
\* neither stat() nor the read fails.
TrNextAppend ==
    \/ \E k \in {"entry", "blank", "corrupt"}, b \in BOOLEAN : TrAppendLine(k, b)
    \/ \E b \in BOOLEAN : TrBeginWrite(b)
    \/ \E b \in BOOLEAN : TrCompleteWrite(b)
    \/ ProcessSessionFile("ok", "ok")

\* Byte offset at which line k of the file starts (the end of the file for
\* k = Len(file) + 1).
TrLineStart(file, k) == FileSize(SubSeq(file, 1, k - 1))

\* The first line from line k on that is neither an entry nor blank
\* (Len(file) + 1 when there is none).
TrStopLine(file, k) ==
    LET bad == {j \in k..Len(file) : file[j].kind \notin {"entry", "blank"}}
    IN IF bad = {} THEN Len(file) + 1
       ELSE CHOOSE j \in bad : \A i \in bad : j <= i

\* The ids of the entries in lines a..b, in file order.
TrEntryIds(file, a, b) ==
    LET seg == SelectSeq(SubSeq(file, a, b), LAMBDA l : l.kind = "entry")
    IN [i \in 1..Len(seg) |-> seg[i].id]

\* A step that is an incremental read of the tracked session.
TrReadStep ==
    /\ trTracked /\ trTracked'
    /\ trFile' = trFile
    /\ trLastRead'.kind = "read"

TrFirstLineFrom(file, off) ==
    CHOOSE k \in 1..Len(file) + 1 :
       /\ TrLineStart(file, k) >= off
       /\ \A j \in 1..k - 1 : TrLineStart(file, j) < off

\* C22: the first poll of a session sets the offset to the size of the file
\* and emits nothing; every later read emits the entries of the lines that
\* begin at or after the offset, in file order, up to the first line that
\* does not parse yet, and no message is emitted twice.
NewSessionStartsAtEndOfFile ==
    /\ [][/\ (~trTracked /\ trTracked') =>
                trOffset' = FileSize(trFile) /\ trEmitted' = trEmitted
          /\ TrReadStep =>
                LET k == TrFirstLineFrom(trFile, trOffset) IN
                trEmitted' = trEmitted
                    \o TrEntryIds(trFile, k, TrStopLine(trFile, k) - 1)]_vars
    /\ [](\A i, j \in 1..Len(trEmitted) :
             trEmitted[i] = trEmitted[j] => i = j)

\* C23: a complete entry of a tracked transcript that lies at or after the
\* offset (the offset being at a line start) is eventually emitted, whatever
\* lines stand before it.
ValidLinesEventuallyEmitted ==
    \A id \in 1..MaxTrWrites :
       (/\ trTracked
        /\ \E k \in 1..Len(trFile), j \in 1..Len(trFile) :
              /\ trFile[k] = [kind |-> "entry", id |-> id]
              /\ j <= k
              /\ trOffset = TrLineStart(trFile, j))
       ~> (id \in TrEmittedIds)

(***************************************************************************)
(* events.jsonl read while a hook process is writing (C24)                 *)
(* session_monitor.py _read_hook_events reads without taking the flock     *)
(* hook.py _write_event holds while it writes.                             *)
(***************************************************************************)

EvLastPartial == evFile # <<>> /\ evFile[Len(evFile)].kind = "partial"

\* The first bytes of an event line have reached the file.
WriteEventBegin ==
    /\ Len(evFile) < MaxEvLines
    /\ ~EvLastPartial
    /\ evFile' = Append(evFile,
                        [kind |-> "partial", id |-> Len(evAppended) + 1])
    /\ evAppended' = Append(evAppended, Len(evAppended) + 1)
    /\ UNCHANGED <<evTruncated, evReaderVars, monLoopVars, pollLoopVars>>
    /\ UNCHANGED nonMonVars

\* The rest of the line and its newline have reached the file.
WriteEventComplete ==
    /\ EvLastPartial
    /\ evFile' = [evFile EXCEPT ![Len(evFile)].kind = "event"]
    /\ UNCHANGED <<evAppended, evTruncated, evReaderVars, monLoopVars,
                   pollLoopVars>>
    /\ UNCHANGED nonMonVars

\* A whole event line written at once (after any line being written).
WriteEventWhole == ~EvLastPartial /\ WriteEvent

\* Hooks appending events, at once or in two pieces, and the monitor loop
\* reading them.
EvNextTwoPiece ==
    \/ WriteEventWhole
    \/ \E k \in {"blank", "malformed"} : ~EvLastPartial /\ WriteOtherLine(k)
    \/ WriteEventBegin
    \/ WriteEventComplete
    \/ SetHookEventCallback
    \/ MonitorStart
    \/ \E cbAt \in 0..MaxEvLines, io \in {"ok", "oserror"} :
          MonitorCycle(cbAt, "TelegramError", io, "none")

\* C24: a read that finds the last line of events.jsonl incomplete does not
\* move the events offset past the start of that line; and once the reader
\* has reached the end of a file of complete lines, every event in the file
\* has been delivered to the callback.
PartialEventLineNotSkipped ==
    /\ [][(EvLastPartial /\ evFile' = evFile)
            => evOffset' <= TrLineStart(evFile, Len(evFile))]_vars
    /\ []((~EvLastPartial /\ evOffset = FileSize(evFile))
            => \A k \in 1..Len(evFile) :
                  evFile[k].kind = "event" =>
                     \E i \in 1..Len(evDelivered) :
                        evDelivered[i] = evFile[k].id)

(***************************************************************************)
(* Startup migration: window_resolver.resolve_stale_ids                    *)
(***************************************************************************)

\* Python dicts as functions with a finite domain.
EmptyDict == [x \in {} |-> x]
Put(d, k, v) == [x \in DOMAIN d \cup {k} |-> IF x = k THEN v ELSE d[x]]
Del(d, k) == [x \in DOMAIN d \ {k} |-> d[x]]
Get(d, k, default) == IF k \in DOMAIN d THEN d[k] ELSE default

WindowIds == {"@1", "@2"}
WindowNames == {"a", "b"}
RsThreads == {1, 2}

\* is_window_id: "@" followed by digits.
is_window_id(key) == key \in WindowIds

\* Iteration order of the persisted dicts.
RsKeyOrder == <<"@1", "@2", "a", "b">>

RECURSIVE KeysInOrder(_, _)
KeysInOrder(order, dom) ==
    IF order = <<>> THEN <<>>
    ELSE (IF Head(order) \in dom THEN <<Head(order)>> ELSE <<>>)
         \o KeysInOrder(Tail(order), dom)

\* live_by_name = {w.window_name: w.window_id for w in live_windows}:
\* a later window of the same name replaces an earlier one.
RECURSIVE LiveByName(_)
LiveByName(live) ==
    IF live = <<>> THEN EmptyDict
    ELSE LET n == Len(live)
         IN Put(LiveByName(SubSeq(live, 1, n - 1)),
                live[n].window_name, live[n].window_id)

LiveIds(live) == {live[i].window_id : i \in 1..Len(live)}

\* _resolve_window_states: the loop over window_states.items().
\* acc = [states, names, changed].
RECURSIVE ResolveWindowStatesLoop(_, _, _, _, _)
ResolveWindowStatesLoop(keys, ws, acc, lbn, liveIds) ==
    IF keys = <<>> THEN acc
    ELSE LET key == Head(keys)
             st == ws[key]
             next ==
               IF is_window_id(key)
               THEN IF key \in liveIds
                    THEN [acc EXCEPT !.states = Put(acc.states, key, st)]
                    ELSE LET display == Get(acc.names, key,
                                            IF st.window_name # ""
                                            THEN st.window_name ELSE key)
                         IN IF display \in DOMAIN lbn
                            THEN [states |-> Put(acc.states, lbn[display],
                                      [st EXCEPT !.window_name = display]),
                                  names |-> Del(Put(acc.names, lbn[display],
                                                    display), key),
                                  changed |-> TRUE]
                            ELSE [acc EXCEPT !.changed = TRUE]
               ELSE IF key \in DOMAIN lbn
                    THEN [states |-> Put(acc.states, lbn[key],
                                         [st EXCEPT !.window_name = key]),
                          names |-> Put(acc.names, lbn[key], key),
                          changed |-> TRUE]
                    ELSE [acc EXCEPT !.changed = TRUE]
         IN ResolveWindowStatesLoop(Tail(keys), ws, next, lbn, liveIds)

_resolve_window_states(ws, names, lbn, liveIds) ==
    ResolveWindowStatesLoop(KeysInOrder(RsKeyOrder, DOMAIN ws), ws,
        [states |-> EmptyDict, names |-> names, changed |-> FALSE],
        lbn, liveIds)

\* One binding tid -> val of _resolve_thread_bindings.
\* acc = [bindings, names, changed].
ResolveOneBinding(acc, tid, val, lbn, liveIds) ==
    IF is_window_id(val)
    THEN IF val \in liveIds
         THEN [acc EXCEPT !.bindings = Put(acc.bindings, tid, val)]
         ELSE IF Get(acc.names, val, val) \in DOMAIN lbn
         THEN LET new_id == lbn[Get(acc.names, val, val)]
              IN [bindings |-> Put(acc.bindings, tid, new_id),
                  names |-> Put(acc.names, new_id, Get(acc.names, val, val)),
                  changed |-> TRUE]
         ELSE [acc EXCEPT !.changed = TRUE]
    ELSE IF val \in DOMAIN lbn
    THEN [bindings |-> Put(acc.bindings, tid, lbn[val]),
          names |-> Put(acc.names, lbn[val], val),
          changed |-> TRUE]
    ELSE [acc EXCEPT !.changed = TRUE]

RECURSIVE ResolveUserBindings(_, _, _, _, _)
ResolveUserBindings(tids, bindings, acc, lbn, liveIds) ==
    IF tids = <<>> THEN acc
    ELSE ResolveUserBindings(Tail(tids), bindings,
             ResolveOneBinding(acc, Head(tids), bindings[Head(tids)],
                               lbn, liveIds),
             lbn, liveIds)

\* _resolve_thread_bindings for the bindings of one user; users left without
\* a binding are deleted.  Result: [bindings (of all users), names, changed].
_resolve_thread_bindings(tb, names, lbn, liveIds) ==
    IF 100 \notin DOMAIN tb
    THEN [bindings |-> tb, names |-> names, changed |-> FALSE]
    ELSE LET r == ResolveUserBindings(
                      KeysInOrder(<<1, 2>>, DOMAIN tb[100]), tb[100],
                      [bindings |-> EmptyDict, names |-> names,
                       changed |-> FALSE], lbn, liveIds)
         IN [bindings |-> IF DOMAIN r.bindings = {} THEN EmptyDict
                          ELSE Put(EmptyDict, 100, r.bindings),
             names |-> r.names, changed |-> r.changed]

\* _resolve_offsets for the offsets of one user.  acc = [offsets, changed].
RECURSIVE ResolveOffsetsLoop(_, _, _, _, _, _)
ResolveOffsetsLoop(keys, offsets, acc, names, lbn, liveIds) ==
    IF keys = <<>> THEN acc
    ELSE LET key == Head(keys)
             next ==
               IF is_window_id(key)
               THEN IF key \in liveIds
                    THEN [acc EXCEPT !.offsets = Put(acc.offsets, key,
                                                     offsets[key])]
                    ELSE IF Get(names, key, key) \in DOMAIN lbn
                    THEN [offsets |-> Put(acc.offsets,
                                          lbn[Get(names, key, key)],
                                          offsets[key]),
                          changed |-> TRUE]
                    ELSE [acc EXCEPT !.changed = TRUE]
               ELSE IF key \in DOMAIN lbn
                    THEN [offsets |-> Put(acc.offsets, lbn[key], offsets[key]),
                          changed |-> TRUE]
                    ELSE [acc EXCEPT !.changed = TRUE]
         IN ResolveOffsetsLoop(Tail(keys), offsets, next, names, lbn, liveIds)

_resolve_offsets(uwo, names, lbn, liveIds) ==
    IF 100 \notin DOMAIN uwo THEN [offsets |-> uwo, changed |-> FALSE]
    ELSE LET r == ResolveOffsetsLoop(
                      KeysInOrder(RsKeyOrder, DOMAIN uwo[100]), uwo[100],
                      [offsets |-> EmptyDict, changed |-> FALSE],
                      names, lbn, liveIds)
         IN [offsets |-> Put(EmptyDict, 100, r.offsets),
             changed |-> r.changed]

\* resolve_stale_ids: the three resolvers in turn on the shared
\* window_display_names.
resolve_stale_ids(live, ws, tb, uwo, names) ==
    LET lbn == LiveByName(live)
        ids == LiveIds(live)
        s == _resolve_window_states(ws, names, lbn, ids)
        b == _resolve_thread_bindings(tb, s.names, lbn, ids)
        o == _resolve_offsets(uwo, b.names, lbn, ids)
    IN [window_states |-> s.states,
        thread_bindings |-> b.bindings,
        user_window_offsets |-> o.offsets,
        window_display_names |-> b.names,
        changed |-> (s.changed \/ b.changed \/ o.changed)]

\* The persisted states and live window lists resolve_stale_ids is run on.
LiveWindow == [window_id : WindowIds, window_name : WindowNames]

RsLiveLists ==
    {<<>>} \cup {<<w>> : w \in LiveWindow}
    \cup {p \in {<<w1, w2>> : w1 \in LiveWindow, w2 \in LiveWindow} :
              p[1].window_id # p[2].window_id}

RsStateKeys == {"@1", "@2", "a"}

RsStateDicts ==
    UNION {{[k \in K |-> [orig |-> k,
                          window_name |-> IF is_window_id(k) THEN wn[k]
                                          ELSE ""]]
            : wn \in [K -> {"", "a"}]}
           : K \in SUBSET RsStateKeys}

RsNameDicts == UNION {[K -> WindowNames] : K \in SUBSET WindowIds}

RsBindingDicts ==
    {EmptyDict}
    \cup UNION {{Put(EmptyDict, 100, b) : b \in [T -> RsStateKeys]}
                : T \in (SUBSET RsThreads) \ {{}}}

OffsetOf(k) == IF k = "@1" THEN 10 ELSE 20

RsOffsetDicts ==
    {EmptyDict}
    \cup {Put(EmptyDict, 100, [k \in K |-> OffsetOf(k)])
          : K \in (SUBSET WindowIds) \ {{}}}

RsNoOut == [window_states |-> EmptyDict, thread_bindings |-> EmptyDict,
            user_window_offsets |-> EmptyDict,
            window_display_names |-> EmptyDict, changed |-> FALSE]

RsInit ==
    /\ rsLive \in RsLiveLists
    /\ rsStates \in RsStateDicts
    /\ rsBindings \in RsBindingDicts
    /\ rsOffsets \in RsOffsetDicts
    /\ rsNames \in RsNameDicts
    /\ rsOut = RsNoOut
    /\ rsPc = "loaded"

\* The state of this subsystem while another one runs.
RsIdle ==
    /\ rsLive = <<>>
    /\ rsStates = EmptyDict
    /\ rsBindings = EmptyDict
    /\ rsOffsets = EmptyDict
    /\ rsNames = EmptyDict
    /\ rsOut = RsNoOut
    /\ rsPc = "loaded"

\* SessionManager startup: resolve_stale_ids on the loaded state.
ResolveStaleIds ==
    /\ rsPc = "loaded"
    /\ rsOut' = resolve_stale_ids(rsLive, rsStates, rsBindings, rsOffsets,
                                  rsNames)
    /\ rsPc' = "resolved"
    /\ UNCHANGED <<rsLive, rsStates, rsBindings, rsOffsets, rsNames>>
    /\ UNCHANGED nonRsVars

RsNext == ResolveStaleIds

\* Ids of the live windows with a given name.
LiveNamed(n) ==
    {rsLive[i].window_id : i \in {j \in 1..Len(rsLive) :
                                   rsLive[j].window_name = n}}

\* The live windows an entry keyed by k with recorded display name `display`
\* matches: itself if live, else the live windows of that name.
RsTargets(k, display) ==
    IF k \in LiveIds(rsLive) THEN {k}
    ELSE LiveNamed(IF is_window_id(k) THEN display ELSE k)

RsStateDisplay(k) ==
    Get(rsNames, k, IF rsStates[k].window_name # ""
                    THEN rsStates[k].window_name ELSE k)

\* C6: resolve_stale_ids keeps every binding, window state and offset of a
\* live window id, re-keys every entry of a stale id whose recorded display
\* name is the name of a live window to that window's id, and drops exactly
\* the entries that match no live window - for bindings whether or not the
\* stale window also has a window_states entry.  (Window states and offsets
\* are compared where no second entry resolves to the same live window.)
ResolveKeepsRekeysDrops ==
    rsPc = "resolved" =>
      /\ \A u \in DOMAIN rsBindings : \A t \in DOMAIN rsBindings[u] :
           LET val == rsBindings[u][t]
               tg == RsTargets(val, Get(rsNames, val, val))
           IN IF tg = {}
              THEN ~(u \in DOMAIN rsOut.thread_bindings
                     /\ t \in DOMAIN rsOut.thread_bindings[u])
              ELSE /\ u \in DOMAIN rsOut.thread_bindings
                   /\ t \in DOMAIN rsOut.thread_bindings[u]
                   /\ rsOut.thread_bindings[u][t] \in tg
      /\ \A u \in DOMAIN rsOut.thread_bindings :
           /\ u \in DOMAIN rsBindings
           /\ DOMAIN rsOut.thread_bindings[u] \subseteq DOMAIN rsBindings[u]
      /\ \A k \in DOMAIN rsStates :
           LET tg == RsTargets(k, RsStateDisplay(k))
           IN (\A k2 \in DOMAIN rsStates \ {k} :
                  RsTargets(k2, RsStateDisplay(k2)) \cap tg = {})
              => /\ tg # {} =>
                      \E j \in tg : /\ j \in DOMAIN rsOut.window_states
                                    /\ rsOut.window_states[j].orig = k
                 /\ tg = {} =>
                      \A j \in DOMAIN rsOut.window_states :
                          rsOut.window_states[j].orig # k
      /\ \A u \in DOMAIN rsOffsets : \A k \in DOMAIN rsOffsets[u] :
           LET tg == RsTargets(k, Get(rsNames, k, k))
           IN (\A k2 \in DOMAIN rsOffsets[u] \ {k} :
                  RsTargets(k2, Get(rsNames, k2, k2)) \cap tg = {})
              => /\ tg # {} =>
                      \E j \in tg :
                          /\ j \in DOMAIN rsOut.user_window_offsets[u]
                          /\ rsOut.user_window_offsets[u][j] = rsOffsets[u][k]
                 /\ tg = {} =>
                      \A j \in DOMAIN rsOut.user_window_offsets[u] :
                          rsOut.user_window_offsets[u][j] # rsOffsets[u][k]

(***************************************************************************)
(* SessionManager: thread bindings, group chat ids, window states, and     *)
(* their persistence to state.json through StatePersistence                *)
(***************************************************************************)
SmUsers == {1, 2}
SmThreads == {10, 20}
SmChatIds == {-100}
NotificationModes == {"all", "errors_only", "muted"}
SmProviders == {"", "codex"}

\* str(int) for the ids used as JSON object keys, and int(str) back.
IntStr == (1 :> "1") @@ (2 :> "2") @@ (10 :> "10") @@ (20 :> "20")
ParseInt(str) == CHOOSE n \in DOMAIN IntStr : IntStr[n] = str

\* Key of group_chat_ids: "<user_id>:<thread_id>".
GcKey(u, t) == IntStr[u] \o ":" \o IntStr[t]

\* WindowState() as created by get_window_state.
NewWindowState == [notification_mode |-> "all", provider_name |-> ""]

\* WindowState.to_dict: provider_name is written only when set.
to_dict(ws) ==
    IF ws.provider_name = ""
    THEN [notification_mode |-> ws.notification_mode]
    ELSE [notification_mode |-> ws.notification_mode,
          provider_name |-> ws.provider_name]

\* WindowState.from_dict: a missing field takes its default.
from_dict(d) ==
    [notification_mode |-> IF "notification_mode" \in DOMAIN d
                           THEN d.notification_mode ELSE "all",
     provider_name |-> IF "provider_name" \in DOMAIN d
                       THEN d.provider_name ELSE ""]

\* SessionManager._serialize_state: the object written to state.json; the
\* integer keys of thread_bindings become strings.
SerializeState(b, g, w, n) ==
    [thread_bindings |->
         [us \in {IntStr[u] : u \in DOMAIN b} |->
             [ts \in {IntStr[t] : t \in DOMAIN b[ParseInt(us)]} |->
                 b[ParseInt(us)][ParseInt(ts)]]],
     group_chat_ids |-> g,
     window_states |-> [k \in DOMAIN w |-> to_dict(w[k])],
     window_display_names |-> n,
     exists |-> FALSE]

\* The loader keeps, of a user's threads bound to one window, the highest
\* thread_id only.
DedupBindings(tb) ==
    [t \in {t1 \in DOMAIN tb :
                \A t2 \in DOMAIN tb : tb[t2] = tb[t1] => t2 <= t1} |-> tb[t]]

\* SessionManager._load_state on the dict StatePersistence.load returned
\* ({} gives the empty state).
LoadState(raw) ==
    IF ~raw.exists
    THEN [thread_bindings |-> EmptyDict, group_chat_ids |-> EmptyDict,
          window_states |-> EmptyDict, window_display_names |-> EmptyDict]
    ELSE [thread_bindings |->
              [u \in {ParseInt(us) : us \in DOMAIN raw.thread_bindings} |->
                  DedupBindings(
                      [t \in {ParseInt(ts) : ts \in
                                  DOMAIN raw.thread_bindings[IntStr[u]]} |->
                          raw.thread_bindings[IntStr[u]][IntStr[t]]])],
          group_chat_ids |-> raw.group_chat_ids,
          window_states |-> [k \in DOMAIN raw.window_states |->
                                from_dict(raw.window_states[k])],
          window_display_names |-> raw.window_display_names]

\* StatePersistence._do_save: serialize and write atomically; a failed write
\* is logged and leaves the state dirty.
_do_save(p, state, io) ==
    IF io = "ok"
    THEN [dirty |-> FALSE, timer |-> FALSE,
          file |-> [state EXCEPT !.exists = TRUE]]
    ELSE [p EXCEPT !.timer = FALSE]

\* A schedule_save that arms the timer without marking the state dirty.
ScheduleSaveNotDirty(p, state, loop, io) ==
    IF loop THEN [p EXCEPT !.timer = TRUE]
    ELSE _do_save(p, state, io)

\* StatePersistence.schedule_save: debounced with a running event loop,
\* immediate without one.
schedule_save(p, state, loop, io) ==
    IF loop THEN [p EXCEPT !.dirty = TRUE, !.timer = TRUE]
    ELSE _do_save([p EXCEPT !.dirty = TRUE], state, io)

\* StatePersistence.flush: cancel the timer, save if dirty.
flush(p, state, io) ==
    IF p.dirty THEN _do_save([p EXCEPT !.timer = FALSE], state, io)
    ELSE [p EXCEPT !.timer = FALSE]

\* StatePersistence.load: the parsed file ({} when it is missing: exists is
\* FALSE).
load(p) == p.file

\* No fresh SessionManager has loaded the file.
SmNoFresh == [loaded |-> FALSE, state |-> LoadState(
                 SerializeState(EmptyDict, EmptyDict, EmptyDict, EmptyDict))]

SmInit ==
    /\ smBindings = EmptyDict
    /\ smGroupChatIds = EmptyDict
    /\ smWindowStates = EmptyDict
    /\ smDisplayNames = EmptyDict
    /\ smPersist = [dirty |-> FALSE, timer |-> FALSE,
                    file |-> SerializeState(EmptyDict, EmptyDict, EmptyDict,
                                            EmptyDict)]
    /\ smFlushed = FALSE
    /\ smFresh = SmNoFresh
    /\ smLastOp = [op |-> "none", user |-> 0, thread |-> 0, window |-> ""]
    /\ smOps = 0

get_window_for_thread(b, u, t) ==
    IF u \in DOMAIN b /\ t \in DOMAIN b[u] THEN b[u][t] ELSE "None"

\* _save_state after a mutation of the in-memory maps b, g, w, n.
SaveState(b, g, w, n, loop, io) ==
    /\ smPersist' = schedule_save(smPersist, SerializeState(b, g, w, n),
                                  loop, io)
    /\ smFlushed' = FALSE
    /\ smFresh' = SmNoFresh
    /\ smOps' = smOps + 1


\* A bind_thread that rebuilds the user's dict with the new binding alone.
BindThreadClobbers(b, u, t, w) == Put(b, u, Put(EmptyDict, t, w))

\* bind_thread on thread_bindings: the binding of (u, t) is set to w,
\* replacing any earlier one.
BindThreadIn(b, u, t, w) == Put(b, u, Put(Get(b, u, EmptyDict), t, w))

\* bind_thread(user_id, thread_id, window_id, window_name)
BindThread(u, t, w, name, loop, io) ==
    /\ smOps < MaxSmOps
    /\ smBindings' = BindThreadIn(smBindings, u, t, w)
    /\ smDisplayNames' = IF name # "" THEN Put(smDisplayNames, w, name)
                         ELSE smDisplayNames
    /\ smLastOp' = [op |-> "bind", user |-> u, thread |-> t, window |-> w]
    /\ SaveState(smBindings', smGroupChatIds, smWindowStates,
                 smDisplayNames', loop, io)
    /\ UNCHANGED <<smGroupChatIds, smWindowStates>>
    /\ UNCHANGED nonSmVars

\* unbind_thread(user_id, thread_id): returns None when nothing is bound;
\* a user left without bindings is removed.
UnbindThread(u, t, loop, io) ==
    /\ smOps < MaxSmOps
    /\ smLastOp' = [op |-> "unbind", user |-> u, thread |-> t,
                    window |-> get_window_for_thread(smBindings, u, t)]
    /\ IF get_window_for_thread(smBindings, u, t) = "None"
       THEN UNCHANGED <<smBindings, smPersist, smFlushed, smFresh, smOps>>
       ELSE /\ smBindings' = IF DOMAIN smBindings[u] = {t}
                             THEN Del(smBindings, u)
                             ELSE Put(smBindings, u, Del(smBindings[u], t))
            /\ SaveState(smBindings', smGroupChatIds, smWindowStates,
                         smDisplayNames, loop, io)
    /\ UNCHANGED <<smGroupChatIds, smWindowStates, smDisplayNames>>
    /\ UNCHANGED nonSmVars

\* set_group_chat_id(user_id, thread_id, chat_id)
SetGroupChatId(u, t, c, loop, io) ==
    /\ smOps < MaxSmOps
    /\ smGroupChatIds' = Put(smGroupChatIds, GcKey(u, t), c)
    /\ smLastOp' = [op |-> "group", user |-> u, thread |-> t, window |-> ""]
    /\ SaveState(smBindings, smGroupChatIds', smWindowStates, smDisplayNames,
                 loop, io)
    /\ UNCHANGED <<smBindings, smWindowStates, smDisplayNames>>
    /\ UNCHANGED nonSmVars

\* set_notification_mode(window_id, mode); get_window_state creates the
\* WindowState when missing.
SetNotificationMode(w, mode, loop, io) ==
    /\ smOps < MaxSmOps
    /\ smWindowStates' =
           Put(smWindowStates, w,
               [Get(smWindowStates, w, NewWindowState)
                    EXCEPT !.notification_mode = mode])
    /\ smLastOp' = [op |-> "mode", user |-> 0, thread |-> 0, window |-> w]
    /\ SaveState(smBindings, smGroupChatIds, smWindowStates', smDisplayNames,
                 loop, io)
    /\ UNCHANGED <<smBindings, smGroupChatIds, smDisplayNames>>
    /\ UNCHANGED nonSmVars

\* set_window_provider(window_id, provider_name)
SetWindowProvider(w, prov, loop, io) ==
    /\ smOps < MaxSmOps
    /\ smWindowStates' =
           Put(smWindowStates, w,
               [Get(smWindowStates, w, NewWindowState)
                    EXCEPT !.provider_name = prov])
    /\ smLastOp' = [op |-> "provider", user |-> 0, thread |-> 0, window |-> w]
    /\ SaveState(smBindings, smGroupChatIds, smWindowStates', smDisplayNames,
                 loop, io)
    /\ UNCHANGED <<smBindings, smGroupChatIds, smDisplayNames>>
    /\ UNCHANGED nonSmVars

SmCurrent ==
    SerializeState(smBindings, smGroupChatIds, smWindowStates, smDisplayNames)

\* The debounce timer of schedule_save fires: _do_save.
SaveTimerFires(io) ==
    /\ smPersist.timer
    /\ smPersist' = _do_save(smPersist, SmCurrent, io)
    /\ UNCHANGED <<smBindings, smGroupChatIds, smWindowStates, smDisplayNames,
                   smFlushed, smFresh, smLastOp, smOps>>
    /\ UNCHANGED nonSmVars

\* flush_state(): StatePersistence.flush.
FlushState(io) ==
    /\ smPersist' = flush(smPersist, SmCurrent, io)
    /\ smFlushed' = ~smPersist'.dirty
    /\ smLastOp' = [op |-> "flush", user |-> 0, thread |-> 0, window |-> ""]
    /\ UNCHANGED <<smBindings, smGroupChatIds, smWindowStates, smDisplayNames,
                   smFresh, smOps>>
    /\ UNCHANGED nonSmVars

\* A fresh SessionManager loads the state file after flush_state().
NewSessionManager ==
    /\ smFlushed
    /\ ~smFresh.loaded
    /\ smFresh' = [loaded |-> TRUE, state |-> LoadState(load(smPersist))]
    /\ UNCHANGED <<smBindings, smGroupChatIds, smWindowStates, smDisplayNames,
                   smPersist, smFlushed, smLastOp, smOps>>
    /\ UNCHANGED nonSmVars

\* How a _save_state call goes: debounced (event loop running), or immediate
\* with the write succeeding or failing.
SaveModes == {<<TRUE, "ok">>, <<FALSE, "ok">>, <<FALSE, "oserror">>}

SmNext ==
    \/ \E u \in SmUsers, t \in SmThreads, w \in WindowIds, sv \in SaveModes :
           \E name \in (IF w = "@1" THEN {"", "p"} ELSE {""}) :
               BindThread(u, t, w, name, sv[1], sv[2])
    \/ \E u \in SmUsers, t \in SmThreads, sv \in SaveModes :
           UnbindThread(u, t, sv[1], sv[2])
    \/ \E t \in SmThreads, c \in SmChatIds, sv \in SaveModes :
           SetGroupChatId(1, t, c, sv[1], sv[2])
    \/ \E mode \in NotificationModes, sv \in SaveModes :
           SetNotificationMode("@1", mode, sv[1], sv[2])
    \/ \E prov \in SmProviders, sv \in SaveModes :
           SetWindowProvider("@1", prov, sv[1], sv[2])
    \/ \E io \in {"ok", "oserror"} : SaveTimerFires(io)
    \/ \E io \in {"ok", "oserror"} : FlushState(io)
    \/ NewSessionManager

\* C3: bind_thread(u, t, w) makes w the one window of (u, t), replacing any
\* earlier binding, and unbind_thread(u, t) removes it; after either call the
\* binding of every other (user_id, thread_id) is what it was before.
BindReplacesOnlyItsTopic ==
    [][(smOps' # smOps /\ smLastOp'.op \in {"bind", "unbind"})
        => /\ get_window_for_thread(smBindings', smLastOp'.user,
                                    smLastOp'.thread)
                = (IF smLastOp'.op = "bind" THEN smLastOp'.window ELSE "None")
           /\ \A u \in SmUsers, t \in SmThreads :
                (u # smLastOp'.user \/ t # smLastOp'.thread)
                => get_window_for_thread(smBindings', u, t)
                     = get_window_for_thread(smBindings, u, t)]_vars

\* A bound topic was re-bound to another window while another topic of the
\* same user is bound.
RebindReplaced ==
    /\ smLastOp.op = "bind"
    /\ smOps = MaxSmOps
    /\ \E t \in SmThreads \ {smLastOp.thread} :
           get_window_for_thread(smBindings, smLastOp.user, t) # "None"
    /\ get_window_for_thread(smBindings, smLastOp.user, smLastOp.thread)
         = smLastOp.window

MERGE_MAX_LENGTH == 4

MergeableTypes == {"text", "thinking", "assistant"}

\* The MessageTasks producers enqueue: [task_type, window_id, content_type,
\* len] (len: total length of the parts).
TaskShapes ==
    {[task_type |-> "content", window_id |-> "@1", content_type |-> "text",
      len |-> n] : n \in 1..3}
    \cup {[task_type |-> "content", window_id |-> "@1",
           content_type |-> "thinking", len |-> 2],
          [task_type |-> "content", window_id |-> "@1",
           content_type |-> "tool_use", len |-> 1],
          [task_type |-> "content", window_id |-> "@2",
           content_type |-> "assistant", len |-> 1],
          [task_type |-> "status_update", window_id |-> "@1",
           content_type |-> "", len |-> 1]}

IsMergeable(task) ==
    task.task_type = "content" /\ task.content_type \in MergeableTypes

\* _can_merge_tasks(base, candidate)
_can_merge_tasks(base, candidate) ==
    /\ IsMergeable(base)
    /\ IsMergeable(candidate)
    /\ base.window_id = candidate.window_id

\* A merge loop that steps over a task it cannot merge and goes on with the
\* tasks behind it.  acc = [ids, len, count, remaining].
MergeLoopSkipping(items, first, acc) ==
    LET RECURSIVE Go(_, _)
        Go(rest, a) ==
            IF rest = <<>> THEN a
            ELSE IF ~_can_merge_tasks(first, Head(rest))
                    \/ a.len + Head(rest).len > MERGE_MAX_LENGTH
            THEN Go(Tail(rest),
                    [a EXCEPT !.remaining = Append(@, Head(rest))])
            ELSE Go(Tail(rest),
                    [a EXCEPT !.ids = Append(@, Head(rest).id),
                              !.len = @ + Head(rest).len,
                              !.count = @ + 1])
    IN Go(items, acc)

\* The loop of _merge_content_tasks over the drained queue items: merge
\* while the next item can merge and fits, put everything from the first
\* other item on back.  acc = [ids, len, count, remaining].
RECURSIVE MergeLoop(_, _, _)
MergeLoop(items, first, acc) ==
    IF items = <<>> THEN acc
    ELSE IF ~_can_merge_tasks(first, Head(items))
            \/ acc.len + Head(items).len > MERGE_MAX_LENGTH
    THEN [acc EXCEPT !.remaining = items]
    ELSE MergeLoop(Tail(items), first,
                   [acc EXCEPT !.ids = Append(@, Head(items).id),
                               !.len = @ + Head(items).len,
                               !.count = @ + 1])

\* _merge_content_tasks(queue, first, lock): under the lock, drain the queue,
\* merge, put the remaining items back in order.
_merge_content_tasks(queue, first) ==
    MergeLoop(queue, first,
              [ids |-> <<first.id>>, len |-> first.len, count |-> 0,
               remaining |-> <<>>])

MqNoOut == [popped |-> FALSE, ids |-> <<>>, count |-> 0]

MqInit ==
    /\ mqQueue = <<>>
    /\ mqNextId = 1
    /\ mqBefore = <<>>
    /\ mqOut = MqNoOut

\* enqueue_content_message / enqueue_status_update: put a task on the queue.
Enqueue(shape) ==
    /\ mqNextId <= MaxMqTasks
    /\ mqQueue' = Append(mqQueue,
           [task_type |-> shape.task_type, window_id |-> shape.window_id,
            content_type |-> shape.content_type, len |-> shape.len,
            id |-> mqNextId])
    /\ mqNextId' = mqNextId + 1
    /\ UNCHANGED <<mqBefore, mqOut>>
    /\ UNCHANGED nonMqVars

\* The consumer pops the head; a mergeable content task goes through the
\* merge phase, any other task is processed alone.
ConsumerPop ==
    /\ mqQueue # <<>>
    /\ mqBefore' = mqQueue
    /\ IF IsMergeable(Head(mqQueue))
       THEN LET r == _merge_content_tasks(Tail(mqQueue), Head(mqQueue))
            IN /\ mqOut' = [popped |-> TRUE, ids |-> r.ids, count |-> r.count]
               /\ mqQueue' = r.remaining
       ELSE /\ mqOut' = [popped |-> TRUE, ids |-> <<Head(mqQueue).id>>,
                         count |-> 0]
            /\ mqQueue' = Tail(mqQueue)
    /\ UNCHANGED mqNextId
    /\ UNCHANGED nonMqVars

MqNext ==
    \/ \E shape \in TaskShapes : Enqueue(shape)
    \/ ConsumerPop

RECURSIVE SumLen(_)
SumLen(tasks) == IF tasks = <<>> THEN 0
                 ELSE Head(tasks).len + SumLen(Tail(tasks))

\* q[1..n] can be merged into one output led by q[1].
MqRunOk(q, n) ==
    /\ \A i \in 2..n : /\ q[i].task_type = "content"
                       /\ q[i].content_type \in MergeableTypes
                       /\ q[i].window_id = q[1].window_id
    /\ (n > 1 => SumLen(SubSeq(q, 1, n)) <= MERGE_MAX_LENGTH)

\* C4: when the consumer pops a mergeable content task, the output is that
\* task followed, in queue order, by the longest run of immediately
\* following tasks of the same window with a mergeable content type whose
\* total length stays within MERGE_MAX_LENGTH; every other task is still in
\* the queue, in its original order.
MergeIsLongestPrefix ==
    (mqOut.popped /\ IsMergeable(Head(mqBefore))) =>
        LET n == Len(mqOut.ids)
        IN /\ n = mqOut.count + 1
           /\ n <= Len(mqBefore)
           /\ mqOut.ids = [i \in 1..n |-> mqBefore[i].id]
           /\ MqRunOk(mqBefore, n)
           /\ (n < Len(mqBefore) => ~MqRunOk(mqBefore, n + 1))
           /\ IsPrefix(SubSeq(mqBefore, n + 1, Len(mqBefore)), mqQueue)

\* A pop merged a follower and stopped at a task that is left in the queue
\* ahead of a task that could have merged.
MergedThenStopped ==
    /\ mqOut.popped
    /\ mqOut.count >= 1
    /\ Len(mqBefore) >= mqOut.count + 3
    /\ _can_merge_tasks(mqBefore[1], mqBefore[mqOut.count + 3])

(***************************************************************************)
(* Send layer: rate_limit_send and the senders that go through it          *)
(***************************************************************************)
\* In ticks; the program's interval is about 0.05 s.
MESSAGE_SEND_INTERVAL == 2

\* The coroutines that send to a chat: the user's queue consumer, the status
\* poller (status_polling calls rate_limit_send_message directly) and a hook
\* event handler.
Senders == {"consumer", "poller", "hook"}
RlChats == {-100, -200}

RlInit ==
    /\ rlNow = 0
    /\ rlLast = EmptyDict
    /\ rlPc = [s \in Senders |-> "idle"]
    /\ rlWake = [s \in Senders |-> 0]
    /\ rlChat = [s \in Senders |-> -100]
    /\ rlSends = [c \in RlChats |-> <<>>]

\* Time passes.
Tick ==
    /\ rlNow < MaxTime
    /\ rlNow' = rlNow + 1
    /\ UNCHANGED <<rlLast, rlPc, rlWake, rlChat, rlSends>>
    /\ UNCHANGED nonRlVars

\* The end of rate_limit_send and the send that follows it:
\* _last_send_time[chat_id] = now, then the Telegram call.
RecordAndSend(c) ==
    /\ rlLast' = Put(rlLast, c, rlNow)
    /\ rlSends' = [rlSends EXCEPT ![c] = Append(@, rlNow)]

\* rate_limit_send(chat_id) up to its await: with a last send less than
\* MESSAGE_SEND_INTERVAL ago the coroutine sleeps for the rest of the
\* interval, otherwise it goes on to send at once.
RateLimitSend(s, c) ==
    /\ rlPc[s] = "idle"
    /\ Len(rlSends[c]) < MaxSends
    /\ rlChat' = [rlChat EXCEPT ![s] = c]
    /\ IF c \in DOMAIN rlLast /\ rlNow - rlLast[c] < MESSAGE_SEND_INTERVAL
       THEN /\ rlPc' = [rlPc EXCEPT ![s] = "sleeping"]
            /\ rlWake' = [rlWake EXCEPT ![s] =
                   rlNow + (MESSAGE_SEND_INTERVAL - (rlNow - rlLast[c]))]
            /\ UNCHANGED <<rlLast, rlSends>>
       ELSE /\ RecordAndSend(c)
            /\ UNCHANGED <<rlPc, rlWake>>
    /\ UNCHANGED rlNow
    /\ UNCHANGED nonRlVars

\* asyncio.sleep returns (not before its delay has passed): the coroutine
\* records the send time and sends.
SleepReturns(s) ==
    /\ rlPc[s] = "sleeping"
    /\ rlNow >= rlWake[s]
    /\ Len(rlSends[rlChat[s]]) < MaxSends
    /\ RecordAndSend(rlChat[s])
    /\ rlPc' = [rlPc EXCEPT ![s] = "idle"]
    /\ UNCHANGED <<rlNow, rlWake, rlChat>>
    /\ UNCHANGED nonRlVars

RlNext ==
    \/ Tick
    \/ \E s \in Senders, c \in RlChats : RateLimitSend(s, c)
    \/ \E s \in Senders : SleepReturns(s)

\* C7: for every chat, two consecutive sends that passed through the rate
\* limiter are at least MESSAGE_SEND_INTERVAL apart, however the senders
\* interleave.
RateFloor ==
    \A c \in RlChats : \A i \in 1..(Len(rlSends[c]) - 1) :
        rlSends[c][i + 1] - rlSends[c][i] >= MESSAGE_SEND_INTERVAL

(***************************************************************************)
(* hook._update_session_map: concurrent SessionStart hooks                 *)
(***************************************************************************)
HookProcs == {"p1", "p2", "p3"}

\* The window each hook process runs in (different windows), and the id of
\* a window no hook runs in.
HookWindow == [p1 |-> "@1", p2 |-> "@2", p3 |-> "@3"]
OtherWindow == "@4"

\* Window names; none has the form of a window id (is_window_id).
HookWindowNames == {"a", "b"}

tmux_session_name == "ccbot"

\* "<tmux_session>:<window_id>" and the old "<tmux_session>:<window_name>".
MapKey(x) == tmux_session_name \o ":" \o x

session_window_key(p) == MapKey(HookWindow[p])

\* The entry a hook process writes.
HookEntry(p, name) == [session_id |-> p, window_name |-> name]

\* A flock that does not exclude other holders.
FlockNotExclusive(holder) == TRUE

\* fcntl.flock(lock_f, LOCK_EX) returns only while no other process holds
\* the lock.
FlockGranted(holder) == holder = "none"

\* The upsert and the removal of the old-format key.
UpsertEntry(session_map, p, name) ==
    LET m == Put(session_map, session_window_key(p), HookEntry(p, name))
    IN IF MapKey(name) # session_window_key(p) /\ MapKey(name) \in DOMAIN m
       THEN Del(m, MapKey(name)) ELSE m

\* The contents session_map.json can have before the hooks run: entries of
\* earlier sessions under id keys and old-format name keys.
HmInitialFiles ==
    UNION {[K -> {[session_id |-> "old", window_name |-> "a"]}]
           : K \in SUBSET {MapKey("@1"), MapKey(OtherWindow), MapKey("a"),
                           MapKey("b")}}

HmInit ==
    /\ hmFile \in HmInitialFiles
    /\ hmFile0 = hmFile
    /\ hmName \in [HookProcs -> HookWindowNames]
    /\ hmLock = "none"
    /\ hmPc = [p \in HookProcs |-> "start"]
    /\ hmLocal = [p \in HookProcs |-> EmptyDict]
    /\ hmWaited = FALSE
    /\ hmFault = FALSE

\* The state of this subsystem while another one runs.
HmIdle ==
    /\ hmFile = EmptyDict
    /\ hmFile0 = EmptyDict
    /\ hmName = [p \in HookProcs |-> "a"]
    /\ hmLock = "none"
    /\ hmPc = [p \in HookProcs |-> "start"]
    /\ hmLocal = [p \in HookProcs |-> EmptyDict]
    /\ hmWaited = FALSE
    /\ hmFault = FALSE

\* flock(LOCK_EX) blocks: another process holds the lock.
FlockBlocks(p) ==
    /\ hmPc[p] = "start"
    /\ ~FlockGranted(hmLock)
    /\ hmPc' = [hmPc EXCEPT ![p] = "waiting"]
    /\ hmWaited' = TRUE
    /\ UNCHANGED <<hmFile, hmFile0, hmName, hmLock, hmLocal, hmFault>>
    /\ UNCHANGED nonHmVars

\* open(lock_path, "w"); fcntl.flock(lock_f, LOCK_EX) returns.
FlockAcquire(p) ==
    /\ hmPc[p] \in {"start", "waiting"}
    /\ FlockGranted(hmLock)
    /\ hmLock' = p
    /\ hmPc' = [hmPc EXCEPT ![p] = "locked"]
    /\ UNCHANGED <<hmFile, hmFile0, hmName, hmLocal, hmWaited, hmFault>>
    /\ UNCHANGED nonHmVars

\* json.loads(map_file.read_text()); a file that cannot be read or parsed
\* makes the process start from an empty map.
LoadMap(p, io) ==
    /\ hmPc[p] = "locked"
    /\ hmLocal' = [hmLocal EXCEPT ![p] = IF io = "ok" THEN hmFile
                                         ELSE EmptyDict]
    /\ hmFault' = (hmFault \/ io # "ok")
    /\ hmPc' = [hmPc EXCEPT ![p] = "loaded"]
    /\ UNCHANGED <<hmFile, hmFile0, hmName, hmLock, hmWaited>>
    /\ UNCHANGED nonHmVars

\* Upsert, old-key cleanup, atomic_write_json; an OSError of the write is
\* logged and the file stays as it was.
UpsertAndWrite(p, io) ==
    /\ hmPc[p] = "loaded"
    /\ hmLocal' = [hmLocal EXCEPT ![p] = UpsertEntry(@, p, hmName[p])]
    /\ hmFile' = IF io = "ok" THEN hmLocal'[p] ELSE hmFile
    /\ hmFault' = (hmFault \/ io # "ok")
    /\ hmPc' = [hmPc EXCEPT ![p] = "written"]
    /\ UNCHANGED <<hmFile0, hmName, hmLock, hmWaited>>
    /\ UNCHANGED nonHmVars

\* finally: fcntl.flock(lock_f, LOCK_UN)
FlockRelease(p) ==
    /\ hmPc[p] = "written"
    /\ hmLock' = IF hmLock = p THEN "none" ELSE hmLock
    /\ hmPc' = [hmPc EXCEPT ![p] = "done"]
    /\ UNCHANGED <<hmFile, hmFile0, hmName, hmLocal, hmWaited, hmFault>>
    /\ UNCHANGED nonHmVars

HmNext ==
    \E p \in HookProcs :
        \/ FlockBlocks(p)
        \/ FlockAcquire(p)
        \/ \E io \in {"ok", "unreadable"} : LoadMap(p, io)
        \/ \E io \in {"ok", "oserror"} : UpsertAndWrite(p, io)
        \/ FlockRelease(p)

HmWrittenKeys == {session_window_key(p) : p \in HookProcs}
HmOldKeys == {MapKey(hmName[p]) : p \in HookProcs}

HexLower == {"0", "1", "2", "3", "4", "5", "6", "7", "8", "9",
             "a", "b", "c", "d", "e", "f"}

UuidDashes == {9, 14, 19, 24}
UuidLen == 36

\* UUID_RE.match(s): 8-4-4-4-12 lower-case hex digits; `$` also matches
\* before one trailing newline.
UUID_RE_match(s) ==
    /\ Len(s) \in {UuidLen, UuidLen + 1}
    /\ Len(s) = UuidLen + 1 => s[UuidLen + 1] = "\n"
    /\ \A i \in 1..UuidLen :
          IF i \in UuidDashes THEN s[i] = "-" ELSE s[i] \in HexLower

\* os.path.isabs (posix): the path starts with a slash.
isabs(path) == Len(path) > 0 /\ path[1] = "/"

_HOOK_EVENT_TYPES ==
    <<"SessionStart", "Notification", "Stop", "SubagentStart", "SubagentStop">>

InHookEventTypes(event) ==
    \E i \in 1..Len(_HOOK_EVENT_TYPES) : _HOOK_EVENT_TYPES[i] = event

_TMUX_FORMAT_PARTS == 3

\* _resolve_window_id on the tab-split output of tmux display-message:
\* None (a record with ok FALSE) on fewer than three parts.
_resolve_window_id(parts) ==
    IF Len(parts) < _TMUX_FORMAT_PARTS
    THEN [ok |-> FALSE, session_window_key |-> "", window_name |-> ""]
    ELSE [ok |-> TRUE,
          session_window_key |-> parts[1] \o ":" \o parts[2],
          window_name |-> parts[3]]

\* session_window_key.rsplit(":", 1)[0] for the keys _resolve_window_id
\* builds from the tmux output.
KeySessionName(parts) == parts[1]

\* The line _write_event appends (ts and data left out).
EventLine(event, session_id, window_key) ==
    [event |-> event, window_key |-> window_key, session_id |-> session_id]

\* _write_event: append under flock; an OSError is logged and swallowed.
_write_event(file, event, session_id, window_key, io) ==
    IF io = "events_oserror" THEN file
    ELSE Append(file, EventLine(event, session_id, window_key))

\* _update_session_map: upsert under the lock, drop the old-format key,
\* write atomically; an OSError is logged and swallowed.
_update_session_map(map, key, session_id, cwd, window_name, session, io) ==
    IF io = "map_oserror" THEN map
    ELSE LET m == Put(map, key, [session_id |-> session_id, cwd |-> cwd,
                                 window_name |-> window_name])
             old_key == session \o ":" \o window_name
         IN IF old_key # key /\ old_key \in DOMAIN m THEN Del(m, old_key)
            ELSE m

\* Payload inputs.
ValidUuid ==
    <<"5", "5", "0", "e", "8", "4", "0", "0", "-", "e", "2", "9", "b", "-",
      "4", "1", "d", "4", "-", "a", "7", "1", "6", "-", "4", "4", "6", "6",
      "5", "5", "4", "4", "0", "0", "0", "0">>
UpperUuid == [i \in 1..UuidLen |-> IF ValidUuid[i] = "e" THEN "E"
                                   ELSE ValidUuid[i]]
NotAUuid == <<"n", "o", "t", "-", "a", "-", "u", "u", "i", "d">>
EmptyText == <<>>

HkSessionIds == {ValidUuid, UpperUuid, NotAUuid, EmptyText}
HkCwds == {<<"/", "t", "m", "p">>, <<"r", "e", "l", "/", "p">>, EmptyText}
HkEventNames == {"SessionStart", "Notification", "Stop", "SubagentStart",
                 "SubagentStop", "TeammateIdle", "TaskCompleted",
                 "PreToolUse", ""}

\* A payload is what json.load returned: a dict in which each of the three
\* keys is present or not, or a parse failure.  A key is a record of its
\* presence and value.
HkAbsentText == [present |-> FALSE, value |-> EmptyText]
HkAbsentName == [present |-> FALSE, value |-> ""]
HkField(values, absent) ==
    {[present |-> TRUE, value |-> v] : v \in values} \cup {absent}
HkNoDict ==
    [session_id |-> HkAbsentText, cwd |-> HkAbsentText,
     hook_event_name |-> HkAbsentName]
HkDicts ==
    [session_id : HkField(HkSessionIds, HkAbsentText),
     cwd : HkField(HkCwds, HkAbsentText),
     hook_event_name : HkField(HkEventNames, HkAbsentName)]
HkPayloads ==
    {[json_ok |-> FALSE, dict |-> HkNoDict]}
    \cup {[json_ok |-> TRUE, dict |-> d] : d \in HkDicts}

\* payload.get(key, default)
PayloadGet(field, default) == IF field.present THEN field.value ELSE default

\* The environment of one invocation: TMUX_PANE, what tmux prints for the
\* pane, and whether the file writes succeed.
HkTmuxOutputs == {<<"">>, <<"ccbot", "@0", "project">>}
HkIo == {"ok", "events_oserror", "map_oserror"}
HkEnvs ==
    {[pane |-> "", parts |-> <<"">>, io |-> "ok"]}
    \cup {[pane |-> "%0", parts |-> o, io |-> "ok"] : o \in HkTmuxOutputs}
    \cup {[pane |-> "%0", parts |-> <<"ccbot", "@0", "project">>, io |-> i]
          : i \in HkIo}

\* session_map.json before the first invocation: empty, or holding the
\* old-format key of the window.
HkInitialMaps ==
    {EmptyDict,
     Put(EmptyDict, "ccbot:project",
         [session_id |-> ValidUuid, cwd |-> <<"/", "t", "m", "p">>,
          window_name |-> "project"])}

\* The two files after _process_hook_stdin ran on payload in env.
HookFiles(events, map, payload, env) ==
    LET unchanged == [events |-> events, map |-> map]
        session_id == PayloadGet(payload.dict.session_id, EmptyText)
        cwd == PayloadGet(payload.dict.cwd, EmptyText)
        event == PayloadGet(payload.dict.hook_event_name, "")
        resolved == _resolve_window_id(env.parts)
    IN IF ~payload.json_ok THEN unchanged
       ELSE IF session_id = EmptyText \/ event = "" THEN unchanged
       ELSE IF ~UUID_RE_match(session_id) THEN unchanged
       ELSE IF cwd # EmptyText /\ ~isabs(cwd) THEN unchanged
       ELSE IF ~InHookEventTypes(event) THEN unchanged
       ELSE IF env.pane = "" THEN unchanged
       ELSE IF ~resolved.ok THEN unchanged
       ELSE IF event = "SessionStart"
       THEN [events |-> _write_event(events, event, session_id,
                                     resolved.session_window_key, env.io),
             map |-> _update_session_map(map, resolved.session_window_key,
                                         session_id, cwd,
                                         resolved.window_name,
                                         KeySessionName(env.parts), env.io)]
       ELSE [events |-> _write_event(events, event, session_id,
                                     resolved.session_window_key, env.io),
             map |-> map]

HkNoLast ==
    [ran |-> FALSE, payload |-> [json_ok |-> FALSE, dict |-> HkNoDict],
     env |-> [pane |-> "", parts |-> <<"">>, io |-> "ok"],
     events |-> <<>>, map |-> EmptyDict]

HkInit ==
    /\ hkEvents = <<>>
    /\ hkMap \in HkInitialMaps
    /\ hkLast = HkNoLast
    /\ hkRuns = 0

HkIdle ==
    /\ hkEvents = <<>>
    /\ hkMap = EmptyDict
    /\ hkLast = HkNoLast
    /\ hkRuns = 0

\* One invocation of `ccbot hook` with a payload on stdin.
_process_hook_stdin(payload, env) ==
    /\ hkRuns < MaxHookRuns
    /\ LET out == HookFiles(hkEvents, hkMap, payload, env)
       IN /\ hkEvents' = out.events
          /\ hkMap' = out.map
    /\ hkLast' = [ran |-> TRUE, payload |-> payload, env |-> env,
                  events |-> hkEvents, map |-> hkMap]
    /\ hkRuns' = hkRuns + 1
    /\ UNCHANGED nonHkVars

HkNext == \E payload \in HkPayloads, env \in HkEnvs :
              _process_hook_stdin(payload, env)

\* The last invocation's payload fields as the hook reads them.
HkLastSessionId == PayloadGet(hkLast.payload.dict.session_id, EmptyText)
HkLastCwd == PayloadGet(hkLast.payload.dict.cwd, EmptyText)
HkLastEvent == PayloadGet(hkLast.payload.dict.hook_event_name, "")

\* The last invocation ran inside a tmux pane that resolved to a window and
\* no file write failed.
HkLastInWindow ==
    /\ hkLast.ran
    /\ hkLast.env.pane # ""
    /\ _resolve_window_id(hkLast.env.parts).ok
    /\ hkLast.env.io = "ok"

\* A valid payload in the spec's sense: UUID session id and absolute cwd.
HkLastValid ==
    /\ hkLast.payload.json_ok
    /\ UUID_RE_match(HkLastSessionId)
    /\ isabs(HkLastCwd)

HkEventOnlyNames == {"Notification", "Stop", "SubagentStart", "SubagentStop",
                     "TeammateIdle", "TaskCompleted"}

HkAppendedOne ==
    hkEvents = Append(hkLast.events,
                      EventLine(HkLastEvent, HkLastSessionId,
                                _resolve_window_id(hkLast.env.parts)
                                    .session_window_key))

\* C11: a valid payload of an event-only type appends exactly one line with
\* the event type, window key and session id and leaves session_map.json
\* alone; SessionStart updates session_map.json and appends one line; any
\* other event name writes nothing.
HookWritesPerEventType ==
    (HkLastInWindow /\ HkLastValid) =>
        /\ HkLastEvent \in HkEventOnlyNames =>
              HkAppendedOne /\ hkMap = hkLast.map
        /\ HkLastEvent = "SessionStart" =>
              /\ HkAppendedOne
              /\ "ccbot:@0" \in DOMAIN hkMap
              /\ hkMap["ccbot:@0"].session_id = HkLastSessionId
        /\ HkLastEvent \notin HkEventOnlyNames \cup {"SessionStart"} =>
              hkEvents = hkLast.events /\ hkMap = hkLast.map

\* C12: an invocation writes to session_map.json or events.jsonl only if
\* the session id matches the UUID pattern and the cwd is an absolute path.
HookWritesOnlyValidated ==
    (hkLast.ran /\ (hkEvents # hkLast.events \/ hkMap # hkLast.map)) =>
        /\ UUID_RE_match(HkLastSessionId)
        /\ isabs(HkLastCwd)

(***************************************************************************)
(* Status poller and Stop hook handler: handlers/status_polling.py,        *)
(* handlers/hook_events.py (C14, C15, C16, C17)                            *)
(***************************************************************************)
StKeys == {<<1, 42>>, <<1, 43>>}
StKeyOrder == <<<<1, 42>>, <<1, 43>>>>
StWindows == {"@5", "@6"}
EmojiStates == {"active", "idle", "done", "dead"}

\* config.autoclose_done_minutes and config.autoclose_dead_minutes, in
\* units of ten minutes.
autoclose_done_minutes == 3
autoclose_dead_minutes == 1

\* The handlers work on the module-level state of status_polling.py, here
\* a record: emoji, timers, dead, seen, startup, sets, enq, sent.  The
\* idle-status bookkeeping (_idle_clear_timers, _idle_status_cleared) and
\* the typing throttle are left out; what a poll reads of them is part of
\* its observation.
StState ==
    [emoji |-> stEmoji, timers |-> stTimers, dead |-> stDead,
     seen |-> stSeen, startup |-> stStartup, sets |-> stSets, enq |-> <<>>,
     sent |-> stSent]

\* topic_emoji.update_topic_emoji: the topic shows the emoji of `state`.
update_topic_emoji(S, key, state) ==
    [S EXCEPT !.emoji[key] = state, !.sets[key] = @ + 1]

\* message_queue.enqueue_status_update; text "clear" stands for None.
enqueue_status_update(S, key, w, text) ==
    [S EXCEPT !.enq = Append(@, <<key, w, text>>)]

\* An arming that always overwrites the stored timer.
StartAutocloseOverwrites(S, key, state, now) ==
    [S EXCEPT !.timers = Put(@, key, [state |-> state, at |-> now])]

_start_autoclose_timer(S, key, state, now) ==
    IF key \notin DOMAIN S.timers \/ S.timers[key].state # state
    THEN [S EXCEPT !.timers = Put(@, key, [state |-> state, at |-> now])]
    ELSE S

_clear_autoclose_if_active(S, key) == [S EXCEPT !.timers = Del(@, key)]

clear_seen_status(S, w) ==
    [S EXCEPT !.seen = @ \ {w}, !.startup = @ \ {w}]

\* obs.cleared: the window is in _idle_status_cleared.
_transition_to_idle(S, key, w, obs) ==
    LET S1 == [S EXCEPT !.startup = @ \ {w}]
        S2 == update_topic_emoji(S1, key, "idle")
        S3 == _clear_autoclose_if_active(S2, key)
    IN IF obs.cleared THEN S3
       ELSE IF ~obs.muted THEN enqueue_status_update(S3, key, w, "ready")
       ELSE enqueue_status_update(S3, key, w, "clear")

\* _check_transcript_activity, when the transcript was written recently.
MarkActivity(S, w) ==
    [S EXCEPT !.seen = @ \cup {w}, !.startup = @ \ {w}]

\* What one poll observes of a live window: kind "queued" (the user's
\* message queue is not empty), "quiet" (the capture failed, or an
\* interactive UI is handled), "status" (a status line), "none"; active:
\* recent transcript activity; shell: the pane runs a shell; graceOver:
\* _STARTUP_TIMEOUT has passed; muted: the notification mode is muted or
\* errors_only; cleared: the idle status was cleared already.
StObsOf(kind, active, shell, graceOver, muted, cleared) ==
    [kind |-> kind, active |-> active, shell |-> shell,
     graceOver |-> graceOver, muted |-> muted, cleared |-> cleared]
StObs ==
    {StObsOf("queued", FALSE, FALSE, FALSE, FALSE, FALSE),
     StObsOf("quiet", FALSE, FALSE, FALSE, FALSE, FALSE),
     StObsOf("status", FALSE, FALSE, FALSE, FALSE, FALSE),
     StObsOf("status", FALSE, FALSE, FALSE, TRUE, FALSE),
     StObsOf("none", TRUE, FALSE, FALSE, FALSE, FALSE),
     StObsOf("none", FALSE, TRUE, FALSE, FALSE, FALSE),
     StObsOf("none", FALSE, FALSE, FALSE, FALSE, FALSE),
     StObsOf("none", FALSE, FALSE, TRUE, FALSE, FALSE),
     StObsOf("none", FALSE, FALSE, TRUE, TRUE, FALSE),
     StObsOf("none", FALSE, FALSE, TRUE, FALSE, TRUE)}

\* A handler that after the startup branch also runs the idle transition.
HandleNoStatusFallsThrough(S, key, w, obs, now) ==
    _transition_to_idle(
        _clear_autoclose_if_active(update_topic_emoji(S, key, "active"), key),
        key, w, obs)

_handle_no_status(S, key, w, obs, now) ==
    IF obs.active
    THEN _clear_autoclose_if_active(
             update_topic_emoji(MarkActivity(S, w), key, "active"), key)
    ELSE IF obs.shell
    THEN LET S1 == [S EXCEPT !.startup = @ \ {w}]
             S2 == update_topic_emoji(S1, key, "done")
             S3 == _start_autoclose_timer(S2, key, "done", now)
         IN enqueue_status_update(S3, key, w, "clear")
    ELSE IF w \in S.seen
    THEN _transition_to_idle(S, key, w, obs)
    ELSE IF w \notin S.startup
    THEN _clear_autoclose_if_active(
             update_topic_emoji([S EXCEPT !.startup = @ \cup {w}],
                                key, "active"),
             key)
    ELSE IF obs.graceOver
    THEN _transition_to_idle([S EXCEPT !.seen = @ \cup {w}], key, w, obs)
    ELSE _clear_autoclose_if_active(update_topic_emoji(S, key, "active"),
                                    key)

\* A status update whose status line leaves the auto-close timer alone.
UpdateStatusKeepsTimer(S, key, w, obs, now) ==
    IF obs.kind = "quiet" THEN S
    ELSE IF obs.kind = "status"
    THEN update_topic_emoji(MarkActivity(S, w), key, "active")
    ELSE _handle_no_status(S, key, w, obs, now)

update_status_message(S, key, w, obs, now) ==
    IF obs.kind = "quiet" THEN S
    ELSE IF obs.kind = "status"
    THEN LET S1 == MarkActivity(S, w)
             S2 == IF ~obs.muted
                   THEN enqueue_status_update(S1, key, w, "status") ELSE S1
         IN _clear_autoclose_if_active(
                update_topic_emoji(S2, key, "active"), key)
    ELSE _handle_no_status(S, key, w, obs, now)

\* A notification that does not remember the announcement.
DeadNotificationForgets(S, key, w, sent, now) ==
    LET S1 == [S EXCEPT !.seen = @ \ {w}]
        S2 == update_topic_emoji(S1, key, "dead")
        S3 == _start_autoclose_timer(S2, key, "dead", now)
    IN IF sent THEN [S3 EXCEPT !.sent[key] = @ + 1] ELSE S3

\* sent: rate_limit_send_message delivered the recovery message.
_handle_dead_window_notification(S, key, w, sent, now) ==
    IF <<key[1], key[2], w>> \in S.dead THEN S
    ELSE LET S1 == [S EXCEPT !.seen = @ \ {w}]
             S2 == update_topic_emoji(S1, key, "dead")
             S3 == _start_autoclose_timer(S2, key, "dead", now)
         IN IF sent
            THEN [S3 EXCEPT !.sent[key] = @ + 1,
                            !.dead = @ \cup {<<key[1], key[2], w>>}]
            ELSE S3

\* _resolve_users_for_window_key: the bindings of the window, in
\* iteration order.
_resolve_users_for_window_key(bound, w) ==
    SelectSeq(StKeyOrder, LAMBDA k : k \in DOMAIN bound /\ bound[k] = w)

\* A Stop handler that serves only the first bound topic.
HandleStopFirstOnly(S, users, w, now) ==
    IF users = <<>> THEN S
    ELSE LET key == Head(users)
             S1 == clear_seen_status(S, w)
             S2 == update_topic_emoji(S1, key, "done")
             S3 == _start_autoclose_timer(S2, key, "done", now)
         IN enqueue_status_update(S3, key, w, "clear")

\* The `for user_id, thread_id, window_id in users` loop of _handle_stop.
RECURSIVE _handle_stop(_, _, _, _)
_handle_stop(S, users, w, now) ==
    IF users = <<>> THEN S
    ELSE LET key == Head(users)
             S1 == clear_seen_status(S, w)
             S2 == update_topic_emoji(S1, key, "done")
             S3 == _start_autoclose_timer(S2, key, "done", now)
             S4 == enqueue_status_update(S3, key, w, "clear")
         IN _handle_stop(S4, Tail(users), w, now)

\* The configuration the poller runs with by default.
StConfig ==
    [done_minutes |-> autoclose_done_minutes,
     dead_minutes |-> autoclose_dead_minutes]

AutocloseTimeout(cfg, state) ==
    IF state = "done" THEN cfg.done_minutes ELSE cfg.dead_minutes

\* An expiry check for which a timeout of 0 is an ordinary timeout.
CheckAutocloseZeroExpires(S, now, cfg) ==
    [S EXCEPT !.timers =
        [k \in {x \in DOMAIN S.timers :
                  ~(now - S.timers[x].at
                         >= AutocloseTimeout(cfg, S.timers[x].state))}
         |-> S.timers[k]]]

\* _check_autoclose_timers: expired timers are removed (and their topics
\* closed).
_check_autoclose_timers(S, now, cfg) ==
    [S EXCEPT !.timers =
        [k \in {x \in DOMAIN S.timers :
                  ~(AutocloseTimeout(cfg, S.timers[x].state) > 0
                    /\ now - S.timers[x].at
                         >= AutocloseTimeout(cfg, S.timers[x].state))}
         |-> S.timers[k]]]

\* The bindings the poller can find at start.
StBindingDicts ==
    {EmptyDict,
     [k \in {<<1, 42>>} |-> "@5"],
     [k \in StKeys |-> "@5"],
     [k \in StKeys |-> IF k = <<1, 42>> THEN "@5" ELSE "@6"]}

StNoLast == [op |-> "none", key |-> <<0, 0>>, w |-> "", sent |-> FALSE]

StInit ==
    /\ stBound \in StBindingDicts
    /\ stLive = StWindows
    /\ stNow = 0
    /\ stEmoji = [k \in StKeys |-> "unset"]
    /\ stTimers = EmptyDict
    /\ stDead = {}
    /\ stSeen = {}
    /\ stStartup = {}
    /\ stTodo = <<>>
    /\ stPolling = FALSE
    /\ stSets = [k \in StKeys |-> 0]
    /\ stEnq = <<>>
    /\ stSent = [k \in StKeys |-> 0]
    /\ stLast = StNoLast

StIdle ==
    /\ stBound = EmptyDict
    /\ stLive = StWindows
    /\ stNow = 0
    /\ stEmoji = [k \in StKeys |-> "unset"]
    /\ stTimers = EmptyDict
    /\ stDead = {}
    /\ stSeen = {}
    /\ stStartup = {}
    /\ stTodo = <<>>
    /\ stPolling = FALSE
    /\ stSets = [k \in StKeys |-> 0]
    /\ stEnq = <<>>
    /\ stSent = [k \in StKeys |-> 0]
    /\ stLast = StNoLast

\* The module-level state after a handler returned S.
StAssign(S) ==
    /\ stEmoji' = S.emoji
    /\ stTimers' = S.timers
    /\ stDead' = S.dead
    /\ stSeen' = S.seen
    /\ stStartup' = S.startup
    /\ stEnq' = S.enq
    /\ stSent' = S.sent

\* time.monotonic() moves on.
StTick ==
    /\ stNow < MaxStTime
    /\ stNow' = stNow + 1
    /\ stEnq' = <<>>
    /\ stLast' = [StNoLast EXCEPT !.op = "tick"]
    /\ UNCHANGED <<stBound, stLive, stEmoji, stTimers, stDead, stSeen,
                   stStartup, stTodo, stPolling, stSets, stSent>>
    /\ UNCHANGED nonStVars

\* tmux loses a window.
StKillWindow(w) ==
    /\ w \in stLive
    /\ stLive' = stLive \ {w}
    /\ stEnq' = <<>>
    /\ stLast' = [StNoLast EXCEPT !.op = "kill", !.w = w]
    /\ UNCHANGED <<stBound, stNow, stEmoji, stTimers, stDead, stSeen,
                   stStartup, stTodo, stPolling, stSets, stSent>>
    /\ UNCHANGED nonStVars

\* status_poll_loop wakes up: list(session_manager.iter_thread_bindings()).
StPollBegin ==
    /\ ~stPolling
    /\ stPolling' = TRUE
    /\ stTodo' = SelectSeq(StKeyOrder, LAMBDA k : k \in DOMAIN stBound)
    /\ stSets' = [k \in StKeys |-> 0]
    /\ stEnq' = <<>>
    /\ stLast' = [StNoLast EXCEPT !.op = "begin"]
    /\ UNCHANGED <<stBound, stLive, stNow, stEmoji, stTimers, stDead, stSeen,
                   stStartup, stSent>>
    /\ UNCHANGED nonStVars

\* One iteration of the loop over the bindings.
StPollBinding(obs, sent) ==
    /\ stPolling
    /\ stTodo # <<>>
    /\ LET key == Head(stTodo)
           w == stBound[key]
           S == StState
           out == IF <<key[1], key[2], w>> \in stDead THEN S
                  ELSE IF w \notin stLive
                  THEN _handle_dead_window_notification(S, key, w, sent,
                                                        stNow)
                  ELSE IF obs.kind = "queued" THEN S
                  ELSE update_status_message(S, key, w, obs, stNow)
       IN /\ StAssign(out)
          /\ stSets' = out.sets
          /\ stLast' = [op |-> IF <<key[1], key[2], w>> \in stDead
                               THEN "poll_notified"
                               ELSE IF w \notin stLive THEN "poll_dead"
                               ELSE "poll_live",
                        key |-> key, w |-> w,
                        sent |-> (sent /\ w \notin stLive
                                  /\ <<key[1], key[2], w>> \notin stDead)]
    /\ stTodo' = Tail(stTodo)
    /\ UNCHANGED <<stBound, stLive, stNow, stPolling>>
    /\ UNCHANGED nonStVars

\* The timer checks at the end of the cycle, then the sleep.
StPollEnd ==
    /\ stPolling
    /\ stTodo = <<>>
    /\ StAssign(_check_autoclose_timers(StState, stNow, StConfig))
    /\ stPolling' = FALSE
    /\ stLast' = [StNoLast EXCEPT !.op = "end"]
    /\ UNCHANGED <<stBound, stLive, stNow, stTodo, stSets>>
    /\ UNCHANGED nonStVars

\* dispatch_hook_event for a Stop event of window w.
DispatchStop(w) ==
    /\ LET out == _handle_stop(StState,
                               _resolve_users_for_window_key(stBound, w),
                               w, stNow)
       IN StAssign(out)
    /\ stLast' = [StNoLast EXCEPT !.op = "stop", !.w = w]
    /\ UNCHANGED <<stBound, stLive, stNow, stTodo, stPolling, stSets>>
    /\ UNCHANGED nonStVars

StNext ==
    \/ StTick
    \/ \E w \in StWindows : StKillWindow(w)
    \/ StPollBegin
    \/ \E obs \in StObs, sent \in BOOLEAN : StPollBinding(obs, sent)
    \/ StPollEnd
    \/ \E w \in StWindows : DispatchStop(w)

\* The bindings of window w.
StKeysOf(w) == {k \in DOMAIN stBound : stBound[k] = w}

StClearEnqueued(enq, k, w) ==
    \E i \in 1..Len(enq) : enq[i] = <<k, w, "clear">>

\* C14: a dispatched Stop event of a window sets, for every topic bound to
\* the window, the emoji to done, arms a done auto-close timer and enqueues
\* a status clear, and resets the window's seen-status flag; with no topic
\* bound to the window no emoji, timer or status message changes.
StopMarksBoundTopicsDone ==
    [][stLast'.op = "stop" =>
         LET w == stLast'.w IN
         /\ \A k \in StKeysOf(w) :
               /\ stEmoji'[k] = "done"
               /\ k \in DOMAIN stTimers'
               /\ stTimers'[k].state = "done"
               /\ StClearEnqueued(stEnq', k, w)
         /\ StKeysOf(w) # {} => w \notin stSeen'
         /\ StKeysOf(w) = {} =>
               /\ stEmoji' = stEmoji
               /\ stTimers' = stTimers
               /\ stEnq' = <<>>]_vars

\* C14 witness: a Stop event of a window with two topics bound has just
\* marked both done, armed both timers and enqueued two status clears.
StopMarkedTwoTopics ==
    /\ stLast.op = "stop"
    /\ StKeysOf(stLast.w) = StKeys
    /\ \A k \in StKeys : stEmoji[k] = "done" /\ k \in DOMAIN stTimers
    /\ Len(stEnq) = 2
    /\ stLast.w \notin stSeen
    /\ stNow > 0

\* C15 as stated: the first poll that finds a bound window missing sends
\* one recovery message, sets the emoji to dead, arms the dead timer and
\* remembers the announcement; later polls of the binding send nothing and
\* leave the timers alone.
DeadWindowAnnouncedByFirstPoll ==
    [][/\ stLast'.op = "poll_dead" =>
            LET k == stLast'.key IN
            /\ stSent[k] = 0
            /\ stSent'[k] = 1
            /\ stEmoji'[k] = "dead"
            /\ k \in DOMAIN stTimers' /\ stTimers'[k].state = "dead"
       /\ stLast'.op = "poll_notified" =>
            /\ stSent' = stSent
            /\ stTimers' = stTimers]_vars

\* C15, amended: every poll that finds the window of a binding missing and
\* not yet announced sets the emoji to dead and arms the dead timer, keeping
\* the start time of a dead timer still armed; the poll whose recovery
\* message is delivered remembers the announcement; after it no poll sends
\* a recovery message or changes the emoji or a timer of the binding, so at
\* most one recovery message is delivered.
DeadWindowAnnouncedOnceDelivered ==
    /\ [][/\ stLast'.op = "poll_dead" =>
               LET k == stLast'.key IN
               /\ stEmoji'[k] = "dead"
               /\ k \in DOMAIN stTimers' /\ stTimers'[k].state = "dead"
               /\ (k \in DOMAIN stTimers /\ stTimers[k].state = "dead")
                     => stTimers'[k] = stTimers[k]
               /\ stLast'.sent =>
                     /\ stSent'[k] = stSent[k] + 1
                     /\ <<k[1], k[2], stLast'.w>> \in stDead'
               /\ ~stLast'.sent => stSent' = stSent
          /\ stLast'.op = "poll_notified" =>
               /\ stSent' = stSent
               /\ stTimers' = stTimers
               /\ stEmoji' = stEmoji
               /\ stEnq' = <<>>]_vars
    /\ [](\A k \in StKeys : stSent[k] <= 1)

\* C15 witness: a later poll skipped a binding whose dead window had been
\* announced, with the one recovery message delivered and the dead timer
\* armed before.
DeadWindowSkippedAfterAnnouncement ==
    /\ stLast.op = "poll_notified"
    /\ stSent[stLast.key] = 1
    /\ stEmoji[stLast.key] = "dead"
    /\ stLast.key \in DOMAIN stTimers
    /\ stTimers[stLast.key].state = "dead"
    /\ stTimers[stLast.key].at < stNow

\* C16: a binding has at most one auto-close timer (one entry under its
\* key); a timer that stays in its state keeps its start time, and a timer
\* that is armed anew or in the other state starts at the time of that
\* step.
TimerKeepsFirstStart ==
    [][\A k \in StKeys :
         k \in DOMAIN stTimers' =>
            IF k \in DOMAIN stTimers /\ stTimers[k].state = stTimers'[k].state
            THEN stTimers'[k].at = stTimers[k].at
            ELSE stTimers'[k].at = stNow]_vars

\* C16 witness: a Stop event armed the done timer of a topic again at a
\* later time and the timer kept its start time.
TimerKeptOnRearm ==
    /\ stLast.op = "stop"
    /\ \E k \in StKeysOf(stLast.w) :
          /\ k \in DOMAIN stTimers
          /\ stTimers[k].state = "done"
          /\ stTimers[k].at < stNow

PmWindows == {"@1", "@2"}
PmOtherKey == "other:@9"
PmSessionIds == {"s1", "s2"}

PmEntry(sid) == [session_id |-> sid, cwd |-> "/a", window_name |-> "proj"]

\* Remove every "<tmux_session_name>:<id>" key whose id is not live; keys of
\* other tmux sessions stay.  Writers hold the flock for the whole
\* read-modify-write, so the step is atomic with respect to the hooks.
prune_session_map(session_map, live_window_ids) ==
    LET dead_keys == {MapKey(w) : w \in PmWindows \ live_window_ids}
    IN [k \in DOMAIN session_map \ dead_keys |-> session_map[k]]

PmLive == {w \in PmWindows : pmWin[w] = "live"}

PmInit ==
    /\ pmFile = Put(EmptyDict, PmOtherKey, PmEntry("s1"))
    /\ pmWin = [w \in PmWindows |-> "unborn"]
    /\ pmPc = "sleep"
    /\ pmSnap = {}
    /\ pmGone = {}
    /\ pmExpect = EmptyDict

\* tmux new-window / kill-window.
PmCreateWindow(w) ==
    /\ pmWin[w] = "unborn"
    /\ pmWin' = [pmWin EXCEPT ![w] = "live"]
    /\ UNCHANGED <<pmFile, pmPc, pmSnap, pmGone, pmExpect>>
    /\ UNCHANGED nonPmVars

PmKillWindow(w) ==
    /\ pmWin[w] = "live"
    /\ pmWin' = [pmWin EXCEPT ![w] = "dead"]
    /\ UNCHANGED <<pmFile, pmPc, pmSnap, pmGone, pmExpect>>
    /\ UNCHANGED nonPmVars

\* A SessionStart hook of the agent running in live window w (a separate
\* process, at any point of the monitor's cycle).
PmSessionStartHook(w, sid) ==
    /\ pmWin[w] = "live"
    /\ pmFile' = _update_session_map(pmFile, MapKey(w), sid, "/a", "proj",
                                     tmux_session_name, "ok")
    /\ pmExpect' = IF pmPc = "sleep" THEN pmExpect
                   ELSE _update_session_map(pmExpect, MapKey(w), sid, "/a",
                                            "proj", tmux_session_name, "ok")
    /\ UNCHANGED <<pmWin, pmPc, pmSnap, pmGone>>
    /\ UNCHANGED nonPmVars

\* A hook of a window of the other tmux session.
PmOtherSessionHook(sid) ==
    /\ pmFile' = _update_session_map(pmFile, PmOtherKey, sid, "/a", "proj",
                                     "other", "ok")
    /\ pmExpect' = IF pmPc = "sleep" THEN pmExpect
                   ELSE _update_session_map(pmExpect, PmOtherKey, sid, "/a",
                                            "proj", "other", "ok")
    /\ UNCHANGED <<pmWin, pmPc, pmSnap, pmGone>>
    /\ UNCHANGED nonPmVars

\* The cycle up to the window listing: hook events, load_session_map,
\* _detect_and_cleanup_changes (none of them writes session_map.json).
PmCycleBegin ==
    /\ pmPc = "sleep"
    /\ pmPc' = "loaded"
    /\ pmExpect' = pmFile
    /\ UNCHANGED <<pmFile, pmWin, pmSnap, pmGone>>
    /\ UNCHANGED nonPmVars

\* all_windows = await tmux_manager.list_windows()
PmListWindows ==
    /\ pmPc = "loaded"
    /\ pmPc' = "listed"
    /\ pmSnap' = PmLive
    /\ pmGone' = {w \in PmWindows : pmWin[w] = "dead"}
    /\ UNCHANGED <<pmFile, pmWin, pmExpect>>
    /\ UNCHANGED nonPmVars

\* session_manager.prune_session_map(live_window_ids)
PmPrune ==
    /\ pmPc = "listed"
    /\ pmPc' = "pruned"
    /\ pmFile' = prune_session_map(pmFile, pmSnap)
    /\ UNCHANGED <<pmWin, pmSnap, pmGone, pmExpect>>
    /\ UNCHANGED nonPmVars

\* The rest of the cycle (new-window callbacks, check_for_updates) and the
\* sleep.
PmCycleEnd ==
    /\ pmPc = "pruned"
    /\ pmPc' = "sleep"
    /\ UNCHANGED <<pmFile, pmWin, pmSnap, pmGone, pmExpect>>
    /\ UNCHANGED nonPmVars

PmNext ==
    \/ \E w \in PmWindows : PmCreateWindow(w)
    \/ \E w \in PmWindows : PmKillWindow(w)
    \/ \E w \in PmWindows, sid \in PmSessionIds : PmSessionStartHook(w, sid)
    \/ \E sid \in PmSessionIds : PmOtherSessionHook(sid)
    \/ PmCycleBegin
    \/ PmListWindows
    \/ PmPrune
    \/ PmCycleEnd

\* C18: when a poll cycle ends, session_map.json holds no entry of this
\* tmux session for a window that was gone when the cycle listed the
\* windows, and it holds, unchanged, every entry the file had at the start
\* of the cycle or got from a hook during it whose window is live or which
\* belongs to another tmux session.
PruneKeepsLiveEntries ==
    [][pmPc = "pruned" /\ pmPc' = "sleep" =>
         /\ \A w \in pmGone : MapKey(w) \notin DOMAIN pmFile'
         /\ \A k \in DOMAIN pmExpect :
               (k = PmOtherKey \/ \E w \in PmLive : k = MapKey(w))
               => k \in DOMAIN pmFile' /\ pmFile'[k] = pmExpect[k]]_vars

(***************************************************************************)
(* StatePersistence with its debounce timer on a clock (C19)               *)
(* state_persistence.py schedule_save, _do_save, flush                     *)
(***************************************************************************)

\* loop.call_later(0.5, self._do_save), in units of 250 ms.
SAVE_DELAY == 2

\* The in-memory state after n changes, as serialize_fn returns it.
SpState(n) == [exists |-> FALSE, v |-> n]

\* A schedule_save that leaves a pending timer handle alone.
SaveTimerDueKeepsPending(p, due, now) ==
    IF p.timer THEN due ELSE now + SAVE_DELAY

\* schedule_save with a running loop: cancel the pending handle, arm a new
\* one SAVE_DELAY from now.
SaveTimerDue(p, due, now) == now + SAVE_DELAY

SpNoLast == [op |-> "none", wrote |-> FALSE, io |-> "ok", loop |-> TRUE]

SpInit ==
    /\ spPersist = [dirty |-> FALSE, timer |-> FALSE, file |-> SpState(0)]
    /\ spCalls = 0
    /\ spNow = 0
    /\ spDue = 0
    /\ spLastCall = 0
    /\ spBurst = 0
    /\ spTimerWrites = 0
    /\ spSinceFlush = FALSE
    /\ spLast = SpNoLast

\* The clock advances; a timer that is due runs first.
SpTick ==
    /\ spNow < MaxSpTime
    /\ spPersist.timer => spNow < spDue
    /\ spNow' = spNow + 1
    /\ spLast' = [SpNoLast EXCEPT !.op = "tick"]
    /\ UNCHANGED <<spPersist, spCalls, spDue, spLastCall, spBurst,
                   spTimerWrites, spSinceFlush>>
    /\ UNCHANGED nonSpVars

\* The owner changes its state and calls schedule_save(), on the loop
\* (loop = TRUE) or where asyncio.get_running_loop() raises RuntimeError.
SpScheduleSave(loop, io) ==
    /\ spCalls < MaxSpCalls
    /\ spNow + SAVE_DELAY <= MaxSpTime
    /\ spCalls' = spCalls + 1
    /\ spPersist' = schedule_save(spPersist, SpState(spCalls + 1), loop, io)
    /\ spDue' = IF loop THEN SaveTimerDue(spPersist, spDue, spNow) ELSE 0
    /\ spLastCall' = spNow
    /\ spBurst' = IF loop THEN spBurst + 1 ELSE 0
    /\ spTimerWrites' = 0
    /\ spSinceFlush' = FALSE
    /\ spLast' = [op |-> "schedule_save", wrote |-> ~loop, io |-> io,
                  loop |-> loop]
    /\ UNCHANGED spNow
    /\ UNCHANGED nonSpVars

\* The timer handle fires: _do_save.
SpTimerFires(io) ==
    /\ spPersist.timer
    /\ spNow = spDue
    /\ spPersist' = _do_save(spPersist, SpState(spCalls), io)
    /\ spDue' = 0
    /\ spBurst' = 0
    /\ spTimerWrites' = spTimerWrites + 1
    /\ spLast' = [op |-> "timer", wrote |-> TRUE, io |-> io, loop |-> TRUE]
    /\ UNCHANGED <<spCalls, spNow, spLastCall, spSinceFlush>>
    /\ UNCHANGED nonSpVars

\* flush()
SpFlush(io) ==
    /\ spPersist' = flush(spPersist, SpState(spCalls), io)
    /\ spDue' = 0
    /\ spBurst' = IF spPersist.dirty THEN 0 ELSE spBurst
    /\ spSinceFlush' = TRUE
    /\ spLast' = [op |-> "flush", wrote |-> spPersist.dirty, io |-> io,
                  loop |-> TRUE]
    /\ UNCHANGED <<spCalls, spNow, spLastCall, spTimerWrites>>
    /\ UNCHANGED nonSpVars

SpIo == {"ok", "oserror"}

SpNext ==
    \/ SpTick
    \/ \E loop \in BOOLEAN, io \in SpIo : SpScheduleSave(loop, io)
    \/ \E io \in SpIo : SpTimerFires(io)
    \/ \E io \in SpIo : SpFlush(io)

\* What a step that called _do_save leaves behind: the state in the file
\* and a clean flag when the write went through, the old file and the dirty
\* flag when it failed.
SpWriteDone ==
    /\ ~spPersist'.timer
    /\ IF spLast'.io = "ok"
       THEN /\ spPersist'.file = [SpState(spCalls') EXCEPT !.exists = TRUE]
            /\ ~spPersist'.dirty
       ELSE /\ spPersist'.file = spPersist.file
            /\ spPersist'.dirty

\* The timer-driven write and flush() as C19 states them.
SpTimerAndFlushSteps ==
    /\ spLast'.op = "timer" =>
          /\ spNow = spLastCall + SAVE_DELAY
          /\ ~spSinceFlush
          /\ SpWriteDone
    /\ spLast'.op = "flush" =>
          /\ ~spPersist'.timer
          /\ IF spPersist.dirty THEN spLast'.wrote /\ SpWriteDone
             ELSE ~spLast'.wrote /\ spPersist' = [spPersist EXCEPT
                                                    !.timer = FALSE]

\* A pending timer is due SAVE_DELAY after the last call, and at most one
\* timer-driven write follows a call.
SpOneTimerPerBurst ==
    /\ spPersist.timer => spDue = spLastCall + SAVE_DELAY /\ spNow <= spDue
                          /\ spPersist.dirty /\ ~spSinceFlush
    /\ spTimerWrites <= 1

\* C19 as stated: schedule_save calls less than 500 ms apart give one write,
\* 500 ms after the last of them (no call writes by itself); flush cancels
\* the timer and writes at once when dirty, and no timer-driven write
\* follows until the next schedule_save; a failed write leaves the state
\* dirty.
SaveCallsCollapse ==
    /\ [][/\ spLast'.op = "schedule_save" =>
                /\ ~spLast'.wrote
                /\ spPersist'.file = spPersist.file
                /\ spPersist'.dirty /\ spPersist'.timer
                /\ spDue' = spNow + SAVE_DELAY
          /\ SpTimerAndFlushSteps]_vars
    /\ []SpOneTimerPerBurst

\* C19 amended: the calls collapse when they are made on the running event
\* loop; a call made where no event loop is running cancels the pending
\* timer and writes immediately.
SaveCallsCollapseOnLoop ==
    /\ [][/\ spLast'.op = "schedule_save" =>
                IF spLast'.loop
                THEN /\ ~spLast'.wrote
                     /\ spPersist'.file = spPersist.file
                     /\ spPersist'.dirty /\ spPersist'.timer
                     /\ spDue' = spNow + SAVE_DELAY
                ELSE spLast'.wrote /\ SpWriteDone
          /\ SpTimerAndFlushSteps]_vars
    /\ []SpOneTimerPerBurst

\* C19 witness: the timer has just written, once, the state of a burst of
\* two calls made less than SAVE_DELAY apart.
BurstWrittenOnce ==
    /\ spLast.op = "timer"
    /\ spLast.io = "ok"
    /\ spCalls >= 2
    /\ spTimerWrites = 1
    /\ spPersist.file = [SpState(spCalls) EXCEPT !.exists = TRUE]
    /\ spNow = spLastCall + SAVE_DELAY
    /\ spNow < 2 * SAVE_DELAY

(***************************************************************************)
(* Provider launch arguments (C20)                                         *)
(* providers/codex.py, providers/gemini.py make_launch_args;               *)
(* providers/claude.py and RESUME_ID_RE of providers/base.py are modelled  *)
(* from the specification.                                                 *)
(***************************************************************************)

\* Characters of a resume id: word characters, the dash, and characters
\* outside [\w-] (a space, a shell metacharacter).
LpWordChars == {"a", "7", "_"}
LpChars == LpWordChars \cup {"-", " ", ";"}

LpStrings(n) == UNION {[1..k -> LpChars] : k \in 0..n}

\* RESUME_ID_RE.match(resume_id): the whole id is [\w-]+.
RESUME_ID_RE_match(resume_id) ==
    /\ Len(resume_id) >= 1
    /\ \A i \in 1..Len(resume_id) : resume_id[i] \in LpWordChars \cup {"-"}

LpRaise == [done |-> TRUE, raised |-> TRUE, args |-> <<>>]
LpReturn(args) == [done |-> TRUE, raised |-> FALSE, args |-> args]

\* ClaudeProvider.make_launch_args
ClaudeMakeLaunchArgs(resume_id, use_continue) ==
    IF resume_id # <<>>
    THEN IF ~RESUME_ID_RE_match(resume_id) THEN LpRaise
         ELSE LpReturn(<<"--resume", " ">> \o resume_id)
    ELSE IF use_continue THEN LpReturn(<<"--continue">>)
    ELSE LpReturn(<<>>)

\* CodexProvider.make_launch_args
CodexMakeLaunchArgs(resume_id, use_continue) ==
    IF resume_id # <<>>
    THEN IF ~RESUME_ID_RE_match(resume_id) THEN LpRaise
         ELSE LpReturn(<<"resume", " ">> \o resume_id)
    ELSE IF use_continue THEN LpReturn(<<"resume", " ", "--last">>)
    ELSE LpReturn(<<>>)

\* GeminiProvider.make_launch_args
GeminiMakeLaunchArgs(resume_id, use_continue) ==
    IF resume_id # <<>>
    THEN LpReturn(<<"--resume", " ">> \o resume_id)
    ELSE IF use_continue THEN LpReturn(<<"--resume", " ", "latest">>)
    ELSE LpReturn(<<>>)

LpProviders == {"claude", "codex", "gemini"}

make_launch_args(provider, resume_id, use_continue) ==
    CASE provider = "claude" -> ClaudeMakeLaunchArgs(resume_id, use_continue)
      [] provider = "codex" -> CodexMakeLaunchArgs(resume_id, use_continue)
      [] provider = "gemini" -> GeminiMakeLaunchArgs(resume_id, use_continue)

LpPending == [done |-> FALSE, raised |-> FALSE, args |-> <<>>]

LpInit ==
    /\ lpProvider \in LpProviders
    /\ lpResumeId \in LpStrings(MaxIdLen)
    /\ lpContinue \in BOOLEAN
    /\ lpResult = LpPending

LpIdle ==
    /\ lpProvider = "claude"
    /\ lpResumeId = <<>>
    /\ lpContinue = FALSE
    /\ lpResult = LpPending

\* provider.make_launch_args(resume_id=..., use_continue=...)
LpMakeLaunchArgs ==
    /\ ~lpResult.done
    /\ lpResult' = make_launch_args(lpProvider, lpResumeId, lpContinue)
    /\ UNCHANGED <<lpProvider, lpResumeId, lpContinue>>
    /\ UNCHANGED nonLpVars

LpNext == LpMakeLaunchArgs

\* C20: for every provider, a make_launch_args call with a resume id that
\* does not match [\w-]+ raises and returns no argument string, so no
\* character outside [\w-] of a resume id is in the arguments returned.
InvalidResumeIdRaises ==
    (lpResult.done /\ lpResumeId # <<>> /\ ~RESUME_ID_RE_match(lpResumeId))
    => lpResult.raised /\ lpResult.args = <<>>

(***************************************************************************)
(* Session-map change detection (C25, C26)                                 *)
(* session_monitor.py _detect_and_cleanup_changes, _monitor_loop,          *)
(* _cleanup_all_stale_sessions                                             *)
(***************************************************************************)

DcWindows == {"@1", "@2"}
DcSessions == {"s1", "s2"}
DcOrders == {<<"@1", "@2">>, <<"@2", "@1">>}

\* _load_current_session_map: {} when the file cannot be read or parsed.
_load_current_session_map(file, io) == IF io = "ok" THEN file ELSE EmptyDict

\* A detection that looks at replaced sessions only.
SessionsToRemoveChangedOnly(last, cur) ==
    {last[w] : w \in {x \in DOMAIN last \cap DOMAIN cur : cur[x] # last[x]}}

\* sessions_to_remove: old session ids of the windows whose session id
\* changed and of the windows that left the map.
sessions_to_remove(last, cur) ==
    {last[w] : w \in {x \in DOMAIN last \cap DOMAIN cur : cur[x] # last[x]}}
    \cup {last[w] : w \in DOMAIN last \ DOMAIN cur}

\* MonitorState.remove_session: the TrackedSession (file path and byte
\* offset) of one session id is dropped.
remove_session(tracked, sid) == tracked \ {sid}

\* state.remove_session and the three pops, for every session id in R.
DcCleanup(T, R) ==
    [tracked |-> {s \in T.tracked : \A r \in R : s \in remove_session(T.tracked, r)},
     mtimes |-> T.mtimes \ R,
     pending |-> T.pending \ R, activity |-> T.activity \ R]

\* The `for window_id in new_windows` loop: windows in iteration order,
\* the cbAt-th callback call raising cbExc (cbAt = 0: none raises).  Result:
\* the call counts and the exception that left the loop ("none": it ended).
RECURSIVE DcFireCallbacks(_, _, _, _, _, _)
DcFireCallbacks(order, new, calls, n, cbAt, cbExc) ==
    IF order = <<>> THEN [calls |-> calls, exc |-> "none"]
    ELSE LET w == Head(order) IN
         IF w \notin new
         THEN DcFireCallbacks(Tail(order), new, calls, n, cbAt, cbExc)
         ELSE LET c2 == [calls EXCEPT ![w] = @ + 1] IN
              IF n + 1 = cbAt /\ ~Caught(cbExc, _CallbackError)
              THEN [calls |-> c2, exc |-> cbExc]
              ELSE DcFireCallbacks(Tail(order), new, c2, n + 1, cbAt, cbExc)

\* _detect_and_cleanup_changes: the tracking state, the call counts, the
\* new _last_session_map and the exception that left the function.
_detect_and_cleanup_changes(last, cur, T, calls, order, cbAt, cbExc) ==
    LET T2 == DcCleanup(T, sessions_to_remove(last, cur))
        new_windows == DOMAIN cur \ DOMAIN last
        r == DcFireCallbacks(order, new_windows, calls, 0, cbAt, cbExc)
    IN [track |-> T2, calls |-> r.calls, exc |-> r.exc,
        last |-> IF r.exc = "none" THEN cur ELSE last]

DcNoTrack == [tracked |-> {}, mtimes |-> {}, pending |-> {}, activity |-> {}]
DcNoLast == [op |-> "none", io |-> "ok", removed |-> {}]

\* Before start(): MonitorState may hold tracked sessions of an earlier
\* run; session_map.json may hold entries.
DcInit ==
    /\ dcMap \in {EmptyDict, Put(EmptyDict, "@1", "s1")}
    /\ dcLastMap = EmptyDict
    /\ dcPrevMap = EmptyDict
    /\ dcTrack \in {[DcNoTrack EXCEPT !.tracked = S] : S \in SUBSET DcSessions}
    /\ dcCalls = [w \in DcWindows |-> 0]
    /\ dcLoop = "idle"
    /\ dcLast = DcNoLast

DcIdle ==
    /\ dcMap = EmptyDict
    /\ dcLastMap = EmptyDict
    /\ dcPrevMap = EmptyDict
    /\ dcTrack = DcNoTrack
    /\ dcCalls = [w \in DcWindows |-> 0]
    /\ dcLoop = "idle"
    /\ dcLast = DcNoLast

\* A SessionStart hook writes the entry of window w.
DcHookUpsert(w, sid) ==
    /\ dcMap' = Put(dcMap, w, sid)
    /\ dcLast' = [DcNoLast EXCEPT !.op = "hook"]
    /\ UNCHANGED <<dcLastMap, dcPrevMap, dcTrack, dcCalls, dcLoop>>
    /\ UNCHANGED nonDcVars

\* The entry of window w leaves the map (window killed, map pruned).
DcEntryRemoved(w) ==
    /\ w \in DOMAIN dcMap
    /\ dcMap' = Del(dcMap, w)
    /\ dcLast' = [DcNoLast EXCEPT !.op = "prune"]
    /\ UNCHANGED <<dcLastMap, dcPrevMap, dcTrack, dcCalls, dcLoop>>
    /\ UNCHANGED nonDcVars

\* The head of _monitor_loop: _cleanup_all_stale_sessions, then
\* _last_session_map = _load_current_session_map().
DcMonitorStart(io1, io2) ==
    /\ dcLoop = "idle"
    /\ LET m1 == _load_current_session_map(dcMap, io1)
           active == {m1[w] : w \in DOMAIN m1}
           m2 == _load_current_session_map(dcMap, io2)
       IN /\ dcTrack' = DcCleanup(dcTrack, dcTrack.tracked \ active)
          /\ dcLastMap' = m2
          /\ dcPrevMap' = m2
          /\ dcLast' = [op |-> "start", io |-> io2,
                        removed |-> dcTrack.tracked \ active]
    /\ dcLoop' = "running"
    /\ UNCHANGED <<dcMap, dcCalls>>
    /\ UNCHANGED nonDcVars

\* One cycle as far as _detect_and_cleanup_changes goes.  An exception
\* that leaves it is caught by `except _LoopError` (backoff, next cycle) or
\* ends the task.
DcDetect(io, order, cbAt, cbExc) ==
    /\ dcLoop = "running"
    /\ LET cur == _load_current_session_map(dcMap, io)
           r == _detect_and_cleanup_changes(dcLastMap, cur, dcTrack, dcCalls,
                                            order, cbAt, cbExc)
       IN /\ \A w \in DcWindows : r.calls[w] <= MaxDcCalls
          /\ dcTrack' = r.track
          /\ dcCalls' = r.calls
          /\ dcLastMap' = r.last
          /\ dcPrevMap' = cur
          /\ dcLoop' = IF r.exc = "none" \/ Caught(r.exc, _LoopErrorMonitor)
                       THEN "running" ELSE "crashed"
          /\ dcLast' = [op |-> "detect", io |-> io,
                        removed |-> sessions_to_remove(dcLastMap, cur)]
    /\ UNCHANGED dcMap
    /\ UNCHANGED nonDcVars

\* check_for_updates of the cycle: a session of the current map becomes
\* tracked (TrackedSession and _file_mtimes entry); a read of new entries
\* of a tracked session stamps its last activity and leaves its pending
\* tools (some, or none).
DcCheckForUpdates(sid, pending) ==
    /\ dcLoop = "running"
    /\ dcLast.op = "detect"
    /\ \E w \in DOMAIN dcLastMap : dcLastMap[w] = sid
    /\ dcTrack' =
          IF sid \notin dcTrack.tracked \/ sid \notin dcTrack.mtimes
          THEN [dcTrack EXCEPT !.tracked = @ \cup {sid},
                               !.mtimes = @ \cup {sid}]
          ELSE [dcTrack EXCEPT
                  !.pending = IF pending THEN @ \cup {sid} ELSE @ \ {sid},
                  !.activity = @ \cup {sid}]
    /\ dcLast' = [DcNoLast EXCEPT !.op = "check"]
    /\ UNCHANGED <<dcMap, dcLastMap, dcPrevMap, dcCalls, dcLoop>>
    /\ UNCHANGED nonDcVars

DcCallbackExc == {"RuntimeError", "JSONDecodeError", "KeyError"}

DcNext ==
    \/ \E w \in DcWindows, sid \in DcSessions : DcHookUpsert(w, sid)
    \/ \E w \in DcWindows : DcEntryRemoved(w)
    \/ \E io1, io2 \in {"ok", "oserror"} : DcMonitorStart(io1, io2)
    \/ \E io \in {"ok", "oserror"} :
          \/ DcDetect(io, <<"@1", "@2">>, 0, "none")
          \/ \E order \in DcOrders, cbExc \in DcCallbackExc :
                DcDetect(io, order, 1, cbExc)
    \/ \E sid \in DcSessions, p \in BOOLEAN : DcCheckForUpdates(sid, p)

\* The map a detection step loaded, seen from the step.
DcLoaded == _load_current_session_map(dcMap, dcLast'.io)

NewWindowCallbackOncePerWindow ==
    /\ [][/\ dcLast'.op = "detect" =>
                \A w \in DcWindows :
                   dcCalls'[w] = dcCalls[w]
                      + (IF w \in DOMAIN DcLoaded \ DOMAIN dcPrevMap
                         THEN 1 ELSE 0)
          /\ dcLast'.op = "start" => dcCalls' = dcCalls]_vars
    /\ [](dcLoop # "crashed")

(***************************************************************************)
(* The emoji state machine and the auto-close timers of one bound topic    *)
(* (C27, C28, C29, C30)                                                    *)
(* handlers/status_polling.py status_poll_loop, update_status_message,     *)
(* _handle_no_status, _check_autoclose_timers; hook_events.py _handle_stop *)
(***************************************************************************)

AcKey == <<1, 42>>
AcWindow == "@5"
AcBound == [k \in {AcKey} |-> AcWindow]

\* autoclose_done_minutes and autoclose_dead_minutes as the environment
\* can set them: the defaults, a short done timeout with dead disabled,
\* and done disabled.
AcConfigs ==
    {StConfig,
     [done_minutes |-> 1, dead_minutes |-> 0],
     [done_minutes |-> 0, dead_minutes |-> 1]}

\* What a poll of the live window can observe (see StObsOf), overlapping
\* signals included.
AcObs ==
    {StObsOf("queued", FALSE, FALSE, FALSE, FALSE, FALSE),
     StObsOf("quiet", FALSE, FALSE, FALSE, FALSE, FALSE),
     StObsOf("status", FALSE, FALSE, FALSE, FALSE, FALSE),
     StObsOf("status", FALSE, FALSE, FALSE, TRUE, FALSE),
     StObsOf("status", TRUE, TRUE, TRUE, FALSE, FALSE)}
    \cup {StObsOf("none", a, s, g, FALSE, FALSE) : a, s, g \in BOOLEAN}
    \cup {StObsOf("none", FALSE, FALSE, g, TRUE, FALSE) : g \in BOOLEAN}
    \cup {StObsOf("none", FALSE, FALSE, g, FALSE, TRUE) : g \in BOOLEAN}

AcNoObs == StObsOf("n/a", FALSE, FALSE, FALSE, FALSE, FALSE)
AcNoLast == [op |-> "none", obs |-> AcNoObs, closed |-> {}, ok |-> TRUE]

AcInit ==
    /\ acS = [emoji |-> [k \in StKeys |-> "unset"], timers |-> EmptyDict,
              dead |-> {}, seen |-> {}, startup |-> {},
              sets |-> [k \in StKeys |-> 0], enq |-> <<>>,
              sent |-> [k \in StKeys |-> 0]]
    /\ acLive = TRUE
    /\ acNow = 0
    /\ acConfig \in AcConfigs
    /\ acPc = "sleep"
    /\ acSinceStop = FALSE
    /\ acClosedDone = FALSE
    /\ acPeriodCloses = 0
    /\ acLast = AcNoLast

AcIdle ==
    /\ acS = [emoji |-> [k \in StKeys |-> "unset"], timers |-> EmptyDict,
              dead |-> {}, seen |-> {}, startup |-> {},
              sets |-> [k \in StKeys |-> 0], enq |-> <<>>,
              sent |-> [k \in StKeys |-> 0]]
    /\ acLive = TRUE
    /\ acNow = 0
    /\ acConfig = StConfig
    /\ acPc = "sleep"
    /\ acSinceStop = FALSE
    /\ acClosedDone = FALSE
    /\ acPeriodCloses = 0
    /\ acLast = AcNoLast

\* The state a handler starts from: the ghosts enq and sets begin anew.
AcState == [acS EXCEPT !.enq = <<>>, !.sets = [k \in StKeys |-> 0]]

\* The ghosts of the done period after a step that leaves the topic emoji
\* at `emoji`, made `calls` close calls and closed a done topic or not.
AcPeriod(emoji, calls, closedDone) ==
    /\ acPeriodCloses' = IF emoji = "done" THEN acPeriodCloses + calls ELSE 0
    /\ acClosedDone' = (emoji = "done" /\ (acClosedDone \/ closedDone))

\* time.monotonic() moves on.
AcTick ==
    /\ acNow < MaxAcTime
    /\ acNow' = acNow + 1
    /\ acLast' = [AcNoLast EXCEPT !.op = "tick"]
    /\ UNCHANGED <<acS, acLive, acConfig, acPc, acSinceStop, acClosedDone,
                   acPeriodCloses>>
    /\ UNCHANGED nonAcVars

\* tmux loses the window.
AcKillWindow ==
    /\ acLive
    /\ acLive' = FALSE
    /\ acSinceStop' = FALSE
    /\ acLast' = [AcNoLast EXCEPT !.op = "kill"]
    /\ UNCHANGED <<acS, acNow, acConfig, acPc, acClosedDone, acPeriodCloses>>
    /\ UNCHANGED nonAcVars

\* The body of the loop over the bindings, for the one binding.
AcPollBinding(obs, sent) ==
    /\ acPc = "sleep"
    /\ LET key == AcKey
           w == AcBound[key]
           S == AcState
           notified == <<key[1], key[2], w>> \in S.dead
           out == IF notified THEN S
                  ELSE IF ~acLive
                  THEN _handle_dead_window_notification(S, key, w, sent,
                                                        acNow)
                  ELSE IF obs.kind = "queued" THEN S
                  ELSE update_status_message(S, key, w, obs, acNow)
       IN /\ acS' = out
          /\ AcPeriod(out.emoji[key], 0, FALSE)
          /\ acLast' = [AcNoLast EXCEPT
                          !.op = IF notified THEN "poll_notified"
                                 ELSE IF ~acLive THEN "poll_dead"
                                 ELSE "poll_live",
                          !.obs = obs]
          /\ acSinceStop' = (/\ acSinceStop
                             /\ ~(obs.kind = "status" \/ obs.active
                                  \/ obs.shell))
    /\ acPc' = "polled"
    /\ UNCHANGED <<acLive, acNow, acConfig>>
    /\ UNCHANGED nonAcVars

\* The timer checks at the end of the cycle, then the sleep.  closeOk: the
\* close_forum_topic calls of the cycle do not raise TelegramError.
AcCycleEnd(closeOk) ==
    /\ acPc = "polled"
    /\ LET out == _check_autoclose_timers(AcState, acNow, acConfig)
           closed == DOMAIN acS.timers \ DOMAIN out.timers
       IN /\ acS' = out
          /\ AcPeriod(out.emoji[AcKey], Cardinality(closed),
                      /\ closeOk
                      /\ \E k \in closed : acS.timers[k].state = "done")
          /\ acLast' = [AcNoLast EXCEPT !.op = "end", !.closed = closed,
                                        !.ok = closeOk]
    /\ acPc' = "sleep"
    /\ UNCHANGED <<acLive, acNow, acConfig, acSinceStop>>
    /\ UNCHANGED nonAcVars

\* dispatch_hook_event for a Stop event of the window.
AcDispatchStop ==
    /\ acLive
    /\ LET out == _handle_stop(AcState,
                               _resolve_users_for_window_key(AcBound,
                                                             AcWindow),
                               AcWindow, acNow)
       IN /\ acS' = out
          /\ AcPeriod(out.emoji[AcKey], 0, FALSE)
    /\ acSinceStop' = TRUE
    /\ acLast' = [AcNoLast EXCEPT !.op = "stop"]
    /\ UNCHANGED <<acLive, acNow, acConfig, acPc>>
    /\ UNCHANGED nonAcVars

\* The poll finds the window; nothing is sent to announce it.
AcPollLive(obs) == acLive /\ AcPollBinding(obs, FALSE)

\* The poll does not find the window; nothing of the pane is observed.
AcPollDead(sent) == ~acLive /\ AcPollBinding(AcNoObs, sent)

AcNext ==
    \/ AcTick
    \/ AcKillWindow
    \/ \E obs \in AcObs : AcPollLive(obs)
    \/ \E sent \in BOOLEAN : AcPollDead(sent)
    \/ \E closeOk \in BOOLEAN : AcCycleEnd(closeOk)
    \/ AcDispatchStop

\* The step is a poll of the live bound window that reached the status
\* evaluation (the user's queue was empty, the pane was captured and no
\* interactive UI took the poll).
AcEvaluatingPoll ==
    /\ acLast'.op = "poll_live"
    /\ acLast'.obs.kind \in {"status", "none"}

AcTimerArmed(S, state) ==
    AcKey \in DOMAIN S.timers /\ S.timers[AcKey].state = state

\* C27: a poll of a live bound window chooses the emoji state in this
\* order: status line present: active, no auto-close timer left; else
\* recent transcript activity: active; else the pane runs a shell: done,
\* done timer armed, status clear enqueued; else the window has shown a
\* status before: idle; else no startup grace is running: it starts and
\* the emoji is active; else the grace is over: idle; else active.
EmojiChosenInOrder ==
    [][AcEvaluatingPoll =>
         LET o == acLast'.obs
             e == acS'.emoji[AcKey]
         IN IF o.kind = "status"
            THEN e = "active" /\ AcKey \notin DOMAIN acS'.timers
            ELSE IF o.active THEN e = "active"
            ELSE IF o.shell
            THEN /\ e = "done"
                 /\ AcTimerArmed(acS', "done")
                 /\ StClearEnqueued(acS'.enq, AcKey, AcWindow)
            ELSE IF AcWindow \in acS.seen THEN e = "idle"
            ELSE IF AcWindow \notin acS.startup
            THEN e = "active" /\ AcWindow \in acS'.startup
            ELSE IF o.graceOver THEN e = "idle"
            ELSE e = "active"]_vars

\* C27 witness: a poll without status line and without transcript
\* activity found a shell in the pane of a window that had shown a status
\* and whose startup grace would be over: the topic is done, not idle, and
\* the done timer is armed.
ShellBeatsIdle ==
    /\ acLast.op = "poll_live"
    /\ acLast.obs = StObsOf("none", FALSE, TRUE, TRUE, FALSE, FALSE)
    /\ AcWindow \in acS.seen
    /\ acS.emoji[AcKey] = "done"
    /\ AcTimerArmed(acS, "done")

\* C28: after a Stop event put the topic in done with the done timer
\* armed, a poll of the still-running window that sees no status line, no
\* transcript activity and no shell leaves the topic in done with the same
\* timer; a poll that moves the topic from done to active has seen a
\* status line or transcript activity.
DoneAfterStopSurvivesPolls ==
    [][acLast'.op = "poll_live" =>
         /\ (/\ acSinceStop
             /\ acS.emoji[AcKey] = "done"
             /\ AcTimerArmed(acS, "done")
             /\ acLast'.obs.kind # "status"
             /\ ~acLast'.obs.active
             /\ ~acLast'.obs.shell)
            => /\ acS'.emoji[AcKey] = "done"
               /\ acS'.timers = acS.timers
         /\ (acSinceStop /\ acS.emoji[AcKey] = "done"
             /\ acS'.emoji[AcKey] = "active")
            => (acLast'.obs.kind = "status" \/ acLast'.obs.active)]_vars

\* The first poll after a Stop event, of an agent idle at its prompt, has
\* turned the topic active and removed the done timer.
StopUndoneByPoll ==
    /\ acLast.op = "poll_live"
    /\ acLast.obs = StObsOf("none", FALSE, FALSE, FALSE, FALSE, FALSE)
    /\ acSinceStop
    /\ acS.emoji[AcKey] = "active"
    /\ AcKey \notin DOMAIN acS.timers
    /\ AcWindow \in acS.startup

\* The timer of the topic before the step, when it has one.
AcElapsed == acNow - acS.timers[AcKey].at

\* C29: close_forum_topic is called for the topic only by the timer check
\* at the end of a cycle, and only when the topic's timer is in state done
\* with autoclose_done_minutes > 0 and at least that long armed, or in
\* state dead with autoclose_dead_minutes > 0 and at least that long armed;
\* the timer is removed by that check whether or not the call succeeds,
\* and no other timer is removed by it.
AutoCloseOnlyOnExpiry ==
    [][/\ acLast'.closed # {} =>
            /\ acLast'.op = "end"
            /\ acLast'.closed = {AcKey}
            /\ AcKey \in DOMAIN acS.timers
            /\ \/ /\ acS.timers[AcKey].state = "done"
                  /\ acConfig.done_minutes > 0
                  /\ AcElapsed >= acConfig.done_minutes
               \/ /\ acS.timers[AcKey].state = "dead"
                  /\ acConfig.dead_minutes > 0
                  /\ AcElapsed >= acConfig.dead_minutes
            /\ AcKey \notin DOMAIN acS'.timers
       /\ (acLast'.op = "end" /\ acLast'.closed = {}) =>
            acS'.timers = acS.timers]_vars

\* C29 witness: the timer check has just removed a done timer armed for at
\* least autoclose_done_minutes while the close call failed.
ExpiredTimerRemovedThoughCloseFailed ==
    /\ acLast.op = "end"
    /\ acLast.closed = {AcKey}
    /\ ~acLast.ok
    /\ acS.emoji[AcKey] = "done"
    /\ acConfig.done_minutes > 0
    /\ acNow >= acConfig.done_minutes
    /\ AcKey \notin DOMAIN acS.timers

\* C30: once the topic was auto-closed in its done period, a poll that
\* still finds a shell in the pane arms no done timer, and one done period
\* sees at most one close_forum_topic call.
ClosedDoneTopicNotRearmed ==
    /\ [][(/\ acLast'.op = "poll_live"
           /\ acClosedDone
           /\ acLast'.obs.kind = "none"
           /\ ~acLast'.obs.active
           /\ acLast'.obs.shell)
          => AcKey \notin DOMAIN acS'.timers]_vars
    /\ [](acPeriodCloses <= 1)

\* A done topic has been closed a second time without leaving done.
DoneTopicClosedTwice ==
    /\ acLast.op = "end"
    /\ acLast.closed = {AcKey}
    /\ acPeriodCloses = 2
    /\ acS.emoji[AcKey] = "done"

(***************************************************************************)
(* Unbound-window TTL (C31)                                                *)
(* handlers/status_polling.py _check_unbound_window_ttl                    *)
(***************************************************************************)

UbWindows == {"@1", "@2"}
UbWindowOrder == <<"@1", "@2">>
UbTimeouts == {autoclose_done_minutes, 1, 0}
UbNoLast == [op |-> "none", w |-> ""]

UbInit ==
    /\ ubBound \in SUBSET UbWindows
    /\ ubLive = UbWindows
    /\ ubTimers = EmptyDict
    /\ ubNow = 0
    /\ ubTimeout \in UbTimeouts
    /\ ubPc = "idle"
    /\ ubBoundIds = {}
    /\ ubExpired = <<>>
    /\ ubLast = UbNoLast

UbIdle ==
    /\ ubBound = {}
    /\ ubLive = UbWindows
    /\ ubTimers = EmptyDict
    /\ ubNow = 0
    /\ ubTimeout = autoclose_done_minutes
    /\ ubPc = "idle"
    /\ ubBoundIds = {}
    /\ ubExpired = <<>>
    /\ ubLast = UbNoLast

\* time.monotonic() moves on.
UbTick ==
    /\ ubNow < MaxUbTime
    /\ ubNow' = ubNow + 1
    /\ ubLast' = [UbNoLast EXCEPT !.op = "tick"]
    /\ UNCHANGED <<ubBound, ubLive, ubTimers, ubTimeout, ubPc, ubBoundIds,
                   ubExpired>>
    /\ UNCHANGED nonUbVars

\* A message handler binds a topic to live window w (bind_thread); it runs
\* whenever the poll loop is suspended or asleep.
UbBindThread(w) ==
    /\ w \in ubLive
    /\ w \notin ubBound
    /\ ubBound' = ubBound \cup {w}
    /\ ubLast' = [op |-> "bind", w |-> w]
    /\ UNCHANGED <<ubLive, ubTimers, ubNow, ubTimeout, ubPc, ubBoundIds,
                   ubExpired>>
    /\ UNCHANGED nonUbVars

\* The last binding of window w goes away (unbind_thread, or the topic is
\* bound to another window).
UbUnbindThread(w) ==
    /\ w \in ubBound
    /\ ubBound' = ubBound \ {w}
    /\ ubLast' = [op |-> "unbind", w |-> w]
    /\ UNCHANGED <<ubLive, ubTimers, ubNow, ubTimeout, ubPc, ubBoundIds,
                   ubExpired>>
    /\ UNCHANGED nonUbVars

\* The window exits on its own.
UbWindowExits(w) ==
    /\ w \in ubLive
    /\ ubLive' = ubLive \ {w}
    /\ ubLast' = [op |-> "exit", w |-> w]
    /\ UNCHANGED <<ubBound, ubTimers, ubNow, ubTimeout, ubPc, ubBoundIds,
                   ubExpired>>
    /\ UNCHANGED nonUbVars

\* The check up to `await tmux_manager.list_windows()`: nothing happens
\* with a timeout of 0, else bound_ids is built.
UbCheckBegin ==
    /\ ubPc = "idle"
    /\ IF ubTimeout <= 0
       THEN UNCHANGED <<ubPc, ubBoundIds>>
       ELSE ubPc' = "listing" /\ ubBoundIds' = ubBound
    /\ ubLast' = [UbNoLast EXCEPT !.op = "begin"]
    /\ UNCHANGED <<ubBound, ubLive, ubTimers, ubNow, ubTimeout, ubExpired>>
    /\ UNCHANGED nonUbVars

\* The timers after the stale ones are dropped and the unbound live
\* windows are tracked.
UbTrack(timers, bound_ids, live_ids, now) ==
    [w \in {x \in DOMAIN timers : x \notin bound_ids /\ x \in live_ids}
           \cup (live_ids \ bound_ids)
       |-> IF w \in DOMAIN timers THEN timers[w] ELSE now]

\* The expired list, in the iteration order of the timers.
UbExpiredOf(timers, now, timeout) ==
    SelectSeq(UbWindowOrder,
              LAMBDA w : w \in DOMAIN timers /\ now - timers[w] >= timeout)

\* list_windows returned: stale timers are removed, unbound windows
\* tracked, the expired list is built; then up to the first kill_window.
UbCheckListed ==
    /\ ubPc = "listing"
    /\ LET t == UbTrack(ubTimers, ubBoundIds, ubLive, ubNow)
           expired == UbExpiredOf(t, ubNow, ubTimeout)
       IN /\ ubTimers' = t
          /\ ubExpired' = expired
          /\ ubPc' = IF expired = <<>> THEN "idle" ELSE "killing"
    /\ ubLast' = [UbNoLast EXCEPT !.op = "listed"]
    /\ UNCHANGED <<ubBound, ubLive, ubNow, ubTimeout, ubBoundIds>>
    /\ UNCHANGED nonUbVars

\* One round of `for wid in expired`: the timer is popped and the window
\* killed.
UbKillExpired ==
    /\ ubPc = "killing"
    /\ LET w == Head(ubExpired) IN
       /\ ubTimers' = Del(ubTimers, w)
       /\ ubLive' = ubLive \ {w}
       /\ ubLast' = [op |-> "kill", w |-> w]
    /\ ubExpired' = Tail(ubExpired)
    /\ ubPc' = IF Tail(ubExpired) = <<>> THEN "idle" ELSE "killing"
    /\ UNCHANGED <<ubBound, ubNow, ubTimeout, ubBoundIds>>
    /\ UNCHANGED nonUbVars

UbNext ==
    \/ UbTick
    \/ \E w \in UbWindows : UbBindThread(w)
    \/ \E w \in UbWindows : UbUnbindThread(w)
    \/ \E w \in UbWindows : UbWindowExits(w)
    \/ UbCheckBegin
    \/ UbCheckListed
    \/ UbKillExpired

\* C31: the TTL check kills a window only while no binding points to it,
\* only with autoclose_done_minutes > 0 and only after the window's timer
\* has run for at least that long; a window that was bound when the check
\* began, or is gone when the check lists the windows, has no timer after
\* the listing.
UnboundTtlKillsOnlyUnbound ==
    [][/\ ubLast'.op = "kill" =>
            LET w == ubLast'.w IN
            /\ w \notin ubBound
            /\ ubTimeout > 0
            /\ w \in DOMAIN ubTimers
            /\ ubNow - ubTimers[w] >= ubTimeout
       /\ ubLast'.op = "listed" =>
            DOMAIN ubTimers' \subseteq ubLive \ ubBoundIds]_vars

(***************************************************************************)
(* Topic existence probe (C32, C33)                                        *)
(* handlers/status_polling.py status_poll_loop; SessionManager             *)
(* unbind_thread and handlers/cleanup.py clear_topic_state are modelled    *)
(* from the specification.                                                 *)
(***************************************************************************)

\* What unpin_all_forum_topic_messages can answer.
TpResults == {"ok", "Topic_id_invalid", "BadRequest", "TelegramError"}
TpNoLast == [op |-> "none", key |-> <<0, 0>>, w |-> "", result |-> "ok"]

\* SessionManager.unbind_thread: the binding of the topic is removed.
unbind_thread(bound, key) == Del(bound, key)

\* clear_topic_state: the per-topic state of the handlers is dropped.
clear_topic_state(state, key) == state \ {key}

\* A probe that takes every BadRequest for a deleted topic.
TopicProbeAnyBadRequest(T, key, w, result) ==
    IF result \in {"Topic_id_invalid", "BadRequest"}
    THEN [bound |-> unbind_thread(T.bound, key),
          live |-> T.live \ {w},
          state |-> clear_topic_state(T.state, key),
          killed |-> IF w \in T.live THEN T.killed \cup {w} ELSE T.killed]
    ELSE T

\* The probe of one binding with its exception handlers; T is
\* [bound, live, state, killed].
topic_probe(T, key, w, result) ==
    IF result = "Topic_id_invalid"
    THEN [bound |-> unbind_thread(T.bound, key),
          live |-> T.live \ {w},
          state |-> clear_topic_state(T.state, key),
          killed |-> IF w \in T.live THEN T.killed \cup {w} ELSE T.killed]
    ELSE T

TpInit ==
    /\ tpBound \in StBindingDicts
    /\ tpLive = StWindows
    /\ tpDeleted = {}
    /\ tpState \in SUBSET StKeys
    /\ tpTodo = <<>>
    /\ tpPc = "idle"
    /\ tpKilled = {}
    /\ tpLast = TpNoLast

TpIdle ==
    /\ tpBound = EmptyDict
    /\ tpLive = StWindows
    /\ tpDeleted = {}
    /\ tpState = {}
    /\ tpTodo = <<>>
    /\ tpPc = "idle"
    /\ tpKilled = {}
    /\ tpLast = TpNoLast

\* A user deletes the forum topic of a binding.
TpDeleteTopic(key) ==
    /\ key \in DOMAIN tpBound
    /\ key \notin tpDeleted
    /\ tpDeleted' = tpDeleted \cup {key}
    /\ tpLast' = [TpNoLast EXCEPT !.op = "delete", !.key = key]
    /\ UNCHANGED <<tpBound, tpLive, tpState, tpTodo, tpPc, tpKilled>>
    /\ UNCHANGED nonTpVars

\* A window exits on its own.
TpWindowExits(w) ==
    /\ w \in tpLive
    /\ tpLive' = tpLive \ {w}
    /\ tpLast' = [TpNoLast EXCEPT !.op = "exit", !.w = w]
    /\ UNCHANGED <<tpBound, tpDeleted, tpState, tpTodo, tpPc, tpKilled>>
    /\ UNCHANGED nonTpVars

\* TOPIC_CHECK_INTERVAL has passed: the probe loop starts over
\* list(session_manager.iter_thread_bindings()).
TpProbeBegin ==
    /\ tpPc = "idle"
    /\ tpTodo' = SelectSeq(StKeyOrder, LAMBDA k : k \in DOMAIN tpBound)
    /\ tpPc' = "probing"
    /\ tpLast' = [TpNoLast EXCEPT !.op = "begin"]
    /\ UNCHANGED <<tpBound, tpLive, tpDeleted, tpState, tpKilled>>
    /\ UNCHANGED nonTpVars

\* The probe of the next binding.  Topic_id_invalid is the answer for a
\* deleted topic and for no other.
TpProbe(result) ==
    /\ tpPc = "probing"
    /\ tpTodo # <<>>
    /\ LET key == Head(tpTodo)
           w == tpBound[key]
           out == topic_probe([bound |-> tpBound, live |-> tpLive,
                               state |-> tpState, killed |-> tpKilled],
                              key, w, result)
       IN /\ (result = "Topic_id_invalid") => key \in tpDeleted
          /\ (result = "ok") => key \notin tpDeleted
          /\ tpBound' = out.bound
          /\ tpLive' = out.live
          /\ tpState' = out.state
          /\ tpKilled' = out.killed
          /\ tpLast' = [op |-> "probe", key |-> key, w |-> w,
                        result |-> result]
    /\ tpTodo' = Tail(tpTodo)
    /\ UNCHANGED <<tpDeleted, tpPc>>
    /\ UNCHANGED nonTpVars

\* The probe loop is through; the cycle goes on to the status polls.
TpProbeEnd ==
    /\ tpPc = "probing"
    /\ tpTodo = <<>>
    /\ tpPc' = "idle"
    /\ tpLast' = [TpNoLast EXCEPT !.op = "end"]
    /\ UNCHANGED <<tpBound, tpLive, tpDeleted, tpState, tpTodo, tpKilled>>
    /\ UNCHANGED nonTpVars

TpNext ==
    \/ \E key \in StKeys : TpDeleteTopic(key)
    \/ \E w \in StWindows : TpWindowExits(w)
    \/ TpProbeBegin
    \/ \E result \in TpResults : TpProbe(result)
    \/ TpProbeEnd

\* C32: a probe answered with Topic_id_invalid leaves the bound window
\* not live, the binding removed and the topic's state cleared, in that
\* step of the cycle; a probe answered with any other error changes no
\* binding, no window and no topic state.
DeletedTopicCleanedUp ==
    [][tpLast'.op = "probe" =>
         IF tpLast'.result = "Topic_id_invalid"
         THEN /\ tpLast'.w \notin tpLive'
              /\ tpLast'.key \notin DOMAIN tpBound'
              /\ tpLast'.key \notin tpState'
         ELSE /\ tpBound' = tpBound
              /\ tpLive' = tpLive
              /\ tpState' = tpState]_vars

\* C32 witness: a probe answered with Topic_id_invalid has just killed the
\* live window of a topic that had state, removed the binding and cleared
\* the state.
DeletedTopicJustCleaned ==
    /\ tpLast.op = "probe"
    /\ tpLast.result = "Topic_id_invalid"
    /\ tpLast.w \in tpKilled
    /\ tpLast.key \notin DOMAIN tpBound
    /\ tpState = {}
    /\ tpDeleted = {tpLast.key}

\* C33: the probe kills the window of a deleted topic only when no other
\* binding references the window, and after the probe loop no binding
\* points to a window the probe has killed.
SharedWindowNotKilled ==
    /\ [][(tpLast'.op = "probe" /\ tpKilled' # tpKilled) =>
            \A k \in DOMAIN tpBound :
               k # tpLast'.key => tpBound[k] # tpLast'.w]_vars
    /\ [](tpPc = "idle" =>
            \A k \in DOMAIN tpBound : tpBound[k] \notin tpKilled)

(***************************************************************************)
(* Interactive mode (C34, C35)                                             *)
(* handlers/status_polling.py update_status_message, status_poll_loop;     *)
(* handlers/hook_events.py _handle_notification; handlers/interactive_ui.py *)
(* is modelled from the specification.                                     *)
(***************************************************************************)

\* The settle wait of _handle_notification, in tenths of a second.
NotificationSettle == 3
IuPollTicks == STATUS_POLL_INTERVAL * 10
IuPrompts == 1..MaxIuPrompts
IuNoLast ==
    [op |-> "none", mode |-> "none", ui |-> FALSE, render |-> FALSE,
     status |-> FALSE]
IuHandlerIdle == [pc |-> "idle", wake |-> 0, prompt |-> 0]

\* interactive_ui.handle_interactive_ui: with the UI on the pane the user
\* enters interactive mode for the window and the UI is rendered as a
\* message; without it nothing is done and the call answers False.
handle_interactive_ui(mode, ui) ==
    IF ui THEN [mode |-> "this", render |-> TRUE, handled |-> TRUE]
    ELSE [mode |-> mode, render |-> FALSE, handled |-> FALSE]

\* A poll that renders a detected UI whatever the mode of the user.
UpdateStatusRechecksUi(mode, ui) ==
    LET m1 == IF mode = "none" THEN "none"
              ELSE IF mode = "this" /\ ui THEN "this" ELSE "none"
    IN IF ui
       THEN LET h == handle_interactive_ui(m1, ui)
            IN [mode |-> h.mode, render |-> h.render, status |-> FALSE]
       ELSE [mode |-> m1, render |-> FALSE, status |-> TRUE]

\* update_status_message from get_interactive_window on; ui: the parsed
\* status is an interactive UI.  Result: the mode, whether the UI was
\* rendered and whether the status and emoji update was reached.
update_status_interactive(mode, ui) ==
    IF mode = "this" /\ ui
    THEN [mode |-> mode, render |-> FALSE, status |-> FALSE]
    ELSE LET m1 == "none"
             should_check_new_ui == mode # "this"
         IN IF should_check_new_ui /\ ui
            THEN LET h == handle_interactive_ui(m1, ui)
                 IN [mode |-> h.mode, render |-> h.render, status |-> FALSE]
            ELSE [mode |-> m1, render |-> FALSE, status |-> TRUE]

IuInit ==
    /\ iuMode = "none"
    /\ iuPrompt = 0
    /\ iuShown = FALSE
    /\ iuCount = 0
    /\ iuPending = <<>>
    /\ iuHandler = IuHandlerIdle
    /\ iuNow = 0
    /\ iuNextPoll \in 0..IuPollTicks
    /\ iuRenders = [p \in IuPrompts |-> 0]
    /\ iuLast = IuNoLast

IuIdle ==
    /\ iuMode = "none"
    /\ iuPrompt = 0
    /\ iuShown = FALSE
    /\ iuCount = 0
    /\ iuPending = <<>>
    /\ iuHandler = IuHandlerIdle
    /\ iuNow = 0
    /\ iuNextPoll = 0
    /\ iuRenders = [p \in IuPrompts |-> 0]
    /\ iuLast = IuNoLast

\* Time passes; a task whose asyncio.sleep is over runs before later ones.
IuTick ==
    /\ iuNow < MaxIuTime
    /\ iuHandler.pc = "settling" => iuNow < iuHandler.wake
    /\ iuNow' = iuNow + 1
    /\ iuLast' = [IuNoLast EXCEPT !.op = "tick"]
    /\ UNCHANGED <<iuMode, iuPrompt, iuShown, iuCount, iuPending, iuHandler,
                   iuNextPoll, iuRenders>>
    /\ UNCHANGED nonIuVars

\* The agent stops at a prompt: its Notification hook writes the event,
\* the UI is not drawn yet.
IuPromptAppears ==
    /\ iuPrompt = 0
    /\ iuCount < MaxIuPrompts
    /\ iuCount' = iuCount + 1
    /\ iuPrompt' = iuCount + 1
    /\ iuPending' = Append(iuPending, iuCount + 1)
    /\ iuLast' = [IuNoLast EXCEPT !.op = "prompt"]
    /\ UNCHANGED <<iuMode, iuShown, iuHandler, iuNow, iuNextPoll, iuRenders>>
    /\ UNCHANGED nonIuVars

\* The CLI has drawn the UI of the prompt.
IuPromptDrawn ==
    /\ iuPrompt # 0
    /\ ~iuShown
    /\ iuShown' = TRUE
    /\ iuLast' = [IuNoLast EXCEPT !.op = "drawn"]
    /\ UNCHANGED <<iuMode, iuPrompt, iuCount, iuPending, iuHandler, iuNow,
                   iuNextPoll, iuRenders>>
    /\ UNCHANGED nonIuVars

\* The prompt is answered and its UI leaves the pane.
IuPromptAnswered ==
    /\ iuPrompt # 0
    /\ iuShown
    /\ iuPrompt' = 0
    /\ iuShown' = FALSE
    /\ iuLast' = [IuNoLast EXCEPT !.op = "answered"]
    /\ UNCHANGED <<iuMode, iuCount, iuPending, iuHandler, iuNow, iuNextPoll,
                   iuRenders>>
    /\ UNCHANGED nonIuVars

\* The user is left in interactive mode for another window.
IuStaleMode ==
    /\ iuMode = "none"
    /\ iuHandler.pc = "idle"
    /\ iuMode' = "other"
    /\ iuLast' = [IuNoLast EXCEPT !.op = "stale"]
    /\ UNCHANGED <<iuPrompt, iuShown, iuCount, iuPending, iuHandler, iuNow,
                   iuNextPoll, iuRenders>>
    /\ UNCHANGED nonIuVars

\* The status poll of the binding in one cycle of status_poll_loop; the
\* next cycle begins STATUS_POLL_INTERVAL after this one at the earliest.
IuPoll ==
    /\ iuNow >= iuNextPoll
    /\ LET r == update_status_interactive(iuMode, iuShown) IN
       /\ iuMode' = r.mode
       /\ iuRenders' = IF r.render
                       THEN [iuRenders EXCEPT ![iuPrompt] = @ + 1]
                       ELSE iuRenders
       /\ iuLast' = [op |-> "poll", mode |-> iuMode, ui |-> iuShown,
                     render |-> r.render, status |-> r.status]
    /\ iuNextPoll' = iuNow + IuPollTicks
    /\ UNCHANGED <<iuPrompt, iuShown, iuCount, iuPending, iuHandler, iuNow>>
    /\ UNCHANGED nonIuVars

\* A handler that goes into its settle wait without setting the mode.
NotificationBeginWithoutMode ==
    /\ iuPending # <<>>
    /\ iuHandler.pc = "idle"
    /\ iuPending' = Tail(iuPending)
    /\ IF iuMode = "this"
       THEN UNCHANGED iuHandler
       ELSE iuHandler' = [pc |-> "settling",
                          wake |-> iuNow + NotificationSettle,
                          prompt |-> Head(iuPending)]
    /\ iuLast' = [IuNoLast EXCEPT !.op = "notify", !.mode = iuMode]
    /\ UNCHANGED <<iuMode, iuPrompt, iuShown, iuCount, iuNow, iuNextPoll,
                   iuRenders>>
    /\ UNCHANGED nonIuVars

\* _handle_notification up to the settle wait: an event of a user already
\* in interactive mode for the window is skipped, else the mode is set.
IuNotificationBegin ==
    /\ iuPending # <<>>
    /\ iuHandler.pc = "idle"
    /\ iuPending' = Tail(iuPending)
    /\ IF iuMode = "this"
       THEN UNCHANGED <<iuMode, iuHandler>>
       ELSE /\ iuMode' = "this"
            /\ iuHandler' = [pc |-> "settling",
                             wake |-> iuNow + NotificationSettle,
                             prompt |-> Head(iuPending)]
    /\ iuLast' = [IuNoLast EXCEPT !.op = "notify", !.mode = iuMode]
    /\ UNCHANGED <<iuPrompt, iuShown, iuCount, iuNow, iuNextPoll, iuRenders>>
    /\ UNCHANGED nonIuVars

\* _handle_notification after the wait: handle_interactive_ui, and
\* clear_interactive_mode when it handled nothing.
IuNotificationRender ==
    /\ iuHandler.pc = "settling"
    /\ iuNow >= iuHandler.wake
    /\ LET h == handle_interactive_ui(iuMode, iuShown) IN
       /\ iuMode' = IF h.handled THEN h.mode ELSE "none"
       /\ iuRenders' = IF h.render
                       THEN [iuRenders EXCEPT ![iuPrompt] = @ + 1]
                       ELSE iuRenders
       /\ iuLast' = [op |-> "notify_render", mode |-> iuMode,
                     ui |-> iuShown, render |-> h.render, status |-> FALSE]
    /\ iuHandler' = IuHandlerIdle
    /\ UNCHANGED <<iuPrompt, iuShown, iuCount, iuPending, iuNow, iuNextPoll>>
    /\ UNCHANGED nonIuVars

IuNext ==
    \/ IuTick
    \/ IuPromptAppears
    \/ IuPromptDrawn
    \/ IuPromptAnswered
    \/ IuStaleMode
    \/ IuPoll
    \/ IuNotificationBegin
    \/ IuNotificationRender

\* C34: a poll of a user in interactive mode for the window renders
\* nothing; with the UI still detected it also updates no status or emoji
\* and leaves the mode, without it the mode is cleared; a poll renders the
\* UI, entering interactive mode, only for a user not in interactive mode
\* for the window.
InteractivePollRespectsMode ==
    [][iuLast'.op = "poll" =>
         /\ iuMode = "this" =>
               /\ ~iuLast'.render
               /\ iuRenders' = iuRenders
               /\ IF iuShown
                  THEN ~iuLast'.status /\ iuMode' = "this"
                  ELSE iuMode' = "none"
         /\ iuLast'.render => (iuMode # "this" /\ iuShown
                               /\ iuMode' = "this")]_vars

\* C34 witness: a poll has just found the UI gone for a user in
\* interactive mode, cleared the mode and gone on to the status update.
InteractiveModeClearedByPoll ==
    /\ iuLast.op = "poll"
    /\ iuLast.mode = "this"
    /\ ~iuLast.ui
    /\ iuLast.status
    /\ iuMode = "none"
    /\ iuRenders[1] = 1

BcNoLast == [op |-> "none", task |-> 0]

\* The cancel of the registered task of a topic: the entry is popped and a
\* task not yet done is cancelled.
cancel_bash_capture(reg, tasks, key) ==
    LET t == reg[key] IN
    [reg |-> [reg EXCEPT ![key] = 0],
     tasks |-> IF t # 0 /\ tasks[t].state = "running"
               THEN [tasks EXCEPT ![t].state = "cancelling"] ELSE tasks]

\* A cleanup block that pops the entry of the topic whatever it holds.
CaptureCleanupPopsAny(reg, tasks, t) ==
    [reg |-> [reg EXCEPT ![tasks[t].key] = 0],
     tasks |-> [tasks EXCEPT ![t].state = "done"]]

\* The cleanup block of _capture_bash_output: the entry is popped only
\* when it is this task.
capture_cleanup(reg, tasks, t) ==
    [reg |-> IF reg[tasks[t].key] = t
             THEN [reg EXCEPT ![tasks[t].key] = 0] ELSE reg,
     tasks |-> [tasks EXCEPT ![t].state = "done"]]

BcInit ==
    /\ bcReg = [k \in StKeys |-> 0]
    /\ bcTasks = <<>>
    /\ bcLast = BcNoLast

\* _forward_message with a text that begins with "!": the registered task
\* of the topic is cancelled, a new task is created and registered.
BcStartCapture(key) ==
    /\ Len(bcTasks) < MaxBcTasks
    /\ LET c == cancel_bash_capture(bcReg, bcTasks, key)
           t == Len(bcTasks) + 1
       IN /\ bcTasks' = Append(c.tasks, [key |-> key, state |-> "running"])
          /\ bcReg' = [c.reg EXCEPT ![key] = t]
          /\ bcLast' = [op |-> "start", task |-> t]
    /\ UNCHANGED nonBcVars

\* _forward_message with any other text: the registered task is cancelled.
BcForwardText(key) ==
    /\ bcReg[key] # 0
    /\ LET c == cancel_bash_capture(bcReg, bcTasks, key)
       IN /\ bcTasks' = c.tasks
          /\ bcReg' = c.reg
          /\ bcLast' = [op |-> "forward", task |-> bcReg[key]]
    /\ UNCHANGED nonBcVars

\* A task comes to its end, by itself or by the CancelledError delivered
\* to it, and runs its cleanup block.
BcTaskEnds(t) ==
    /\ t \in 1..Len(bcTasks)
    /\ bcTasks[t].state \in {"running", "cancelling"}
    /\ LET c == capture_cleanup(bcReg, bcTasks, t)
       IN /\ bcTasks' = c.tasks
          /\ bcReg' = c.reg
          /\ bcLast' = [op |-> "end", task |-> t]
    /\ UNCHANGED nonBcVars

BcNext ==
    \/ \E key \in StKeys : BcStartCapture(key)
    \/ \E key \in StKeys : BcForwardText(key)
    \/ \E t \in 1..MaxBcTasks : BcTaskEnds(t)

\* C36: a topic has at most one capture task that is not cancelled or
\* done, and it is the registered one; a start registers the new task and
\* cancels the one registered before; a task that ends removes the entry
\* of its topic only if the entry is that task, and changes no entry
\* otherwise.
OneCaptureTaskPerTopic ==
    /\ [](\A k \in StKeys :
            /\ \A t \in 1..Len(bcTasks) :
                  (bcTasks[t].key = k /\ bcTasks[t].state = "running")
                     => bcReg[k] = t
            /\ bcReg[k] # 0 =>
                  (bcReg[k] \in 1..Len(bcTasks) /\ bcTasks[bcReg[k]].key = k))
    /\ [][/\ bcLast'.op = "start" =>
               LET t == bcLast'.task
                   k == bcTasks'[t].key
               IN /\ bcReg'[k] = t
                  /\ bcReg[k] # 0 => bcTasks'[bcReg[k]].state # "running"
          /\ bcLast'.op = "end" =>
               LET t == bcLast'.task
                   k == bcTasks[t].key
               IN bcReg' = IF bcReg[k] = t THEN [bcReg EXCEPT ![k] = 0]
                           ELSE bcReg]_vars

\* C36 witness: a cancelled task has just run its cleanup block while its
\* replacement was registered, and the replacement is still registered
\* and running.
ReplacementSurvivesCleanup ==
    /\ bcLast.op = "end"
    /\ bcLast.task = 1
    /\ bcReg[bcTasks[1].key] = 2
    /\ bcTasks[2].state = "running"
    /\ bcTasks[1].state = "done"

(***************************************************************************)
(* Concurrent hook processes writing events.jsonl (C37)                    *)
(* hook.py _write_event: open(events_file, "a") gives a buffered text      *)
(* file; f.write under the flock puts a line shorter than the buffer into  *)
(* the buffer, and the buffer reaches the file when the with block closes  *)
(* the file, after LOCK_UN.  A line longer than the buffer is written      *)
(* through by f.write itself.                                              *)
(***************************************************************************)

HwProcs == 1..MaxHwProcs

HwInit ==
    /\ hwPc = [p \in HwProcs |-> "start"]
    /\ hwLock = 0
    /\ hwBuffered = {}
    /\ hwFile = <<>>
    /\ hwLockOrder = <<>>
    /\ hwLast = [op |-> "none", p |-> 0]

HwIdle ==
    /\ hwPc = [p \in HwProcs |-> "start"]
    /\ hwLock = 0
    /\ hwBuffered = {}
    /\ hwFile = <<>>
    /\ hwLockOrder = <<>>
    /\ hwLast = [op |-> "none", p |-> 0]

\* flock(LOCK_EX) returns once no other process holds the lock, then
\* f.write(event_line + "\n"): a line longer than the buffer goes to the
\* file at once, any other line stays in the buffer.
HwLockedWrite(p, long) ==
    /\ hwPc[p] = "start"
    /\ hwLock = 0
    /\ hwLock' = p
    /\ hwLockOrder' = Append(hwLockOrder, p)
    /\ hwPc' = [hwPc EXCEPT ![p] = "written"]
    /\ IF long
       THEN hwFile' = Append(hwFile, p) /\ UNCHANGED hwBuffered
       ELSE hwBuffered' = hwBuffered \cup {p} /\ UNCHANGED hwFile
    /\ hwLast' = [op |-> "write", p |-> p]
    /\ UNCHANGED nonHwVars

\* finally: flock(LOCK_UN)
HwUnlock(p) ==
    /\ hwPc[p] = "written"
    /\ hwLock' = 0
    /\ hwPc' = [hwPc EXCEPT ![p] = "unlocked"]
    /\ hwLast' = [op |-> "unlock", p |-> p]
    /\ UNCHANGED <<hwBuffered, hwFile, hwLockOrder>>
    /\ UNCHANGED nonHwVars

\* The end of the with block closes the file: the buffer is flushed, one
\* append of the whole line.
HwClose(p) ==
    /\ hwPc[p] = "unlocked"
    /\ hwPc' = [hwPc EXCEPT ![p] = "closed"]
    /\ hwFile' = IF p \in hwBuffered THEN Append(hwFile, p) ELSE hwFile
    /\ hwBuffered' = hwBuffered \ {p}
    /\ hwLast' = [op |-> "close", p |-> p]
    /\ UNCHANGED <<hwLock, hwLockOrder>>
    /\ UNCHANGED nonHwVars

HwNext ==
    \/ \E p \in HwProcs, long \in BOOLEAN : HwLockedWrite(p, long)
    \/ \E p \in HwProcs : HwUnlock(p)
    \/ \E p \in HwProcs : HwClose(p)

\* The position of process p in a sequence of processes, 0 if absent.
HwPos(seq, p) ==
    IF \E i \in 1..Len(seq) : seq[i] = p
    THEN CHOOSE i \in 1..Len(seq) : seq[i] = p
    ELSE 0

\* C37: a line is appended to events.jsonl only by the process that holds
\* the flock, and two lines of the file stand in the order in which their
\* writers took the lock.
EventLinesWrittenUnderLock ==
    /\ [][hwFile' # hwFile => hwLock = hwLast'.p \/ hwLock' = hwLast'.p]_vars
    /\ [](\A i, j \in 1..Len(hwFile) :
             i < j => HwPos(hwLockOrder, hwFile[i])
                        < HwPos(hwLockOrder, hwFile[j]))

\* Two lines stand in the file against the order of the locks.
EventLinesOutOfLockOrder ==
    \E i, j \in 1..Len(hwFile) :
       /\ i < j
       /\ HwPos(hwLockOrder, hwFile[i]) > HwPos(hwLockOrder, hwFile[j])

(***************************************************************************)
(* A transcript replaced by new content between two polls (C38)            *)
(***************************************************************************)

\* n new entries with ids from `first` on.
TrNewEntries(first, n) ==
    [i \in 1..n |-> [kind |-> "entry", id |-> first + i - 1]]

\* The transcript file is replaced by n new complete entries (the agent
\* rewrites the file after /clear or a compaction).
TrReplace(n, bumps) ==
    /\ trTracked
    /\ trFile # <<>>
    /\ n \in 1..MaxTrLines
    /\ trNextId + n - 1 <= MaxTrWrites
    /\ trFile' = TrNewEntries(trNextId, n)
    /\ trNextId' = trNextId + n
    /\ TrTouched(bumps)
    /\ trLastRead' = [kind |-> "replaced", reset |-> FALSE, n |-> 0]
    /\ UNCHANGED <<trTracked, trOffset, trEmitted>>
    /\ UNCHANGED nonTrVars

\* Appends of entries, replacements of the whole file, and polls in which
\* neither stat() nor the read fails.
TrNextReplace ==
    \/ \E b \in BOOLEAN : TrAppendLine("entry", b)
    \/ \E n \in 1..MaxTrLines, b \in BOOLEAN : TrReplace(n, b)
    \/ ProcessSessionFile("ok", "ok")
    \/ TrRemoveSession

\* A step that is the first poll after a replacement that left the file at
\* least as large as the stored offset.
TrPollOfReplaced ==
    /\ trTracked /\ trTracked'
    /\ trFile' = trFile
    /\ trLastRead.kind = "replaced"
    /\ trLastRead'.kind \in {"read", "skip"}
    /\ FileSize(trFile) >= trOffset

\* C38: the poll after a replacement by content at least as large as the
\* stored offset emits the entries of the new content from the beginning
\* of the file.
ReplacedTranscriptReadFromStart ==
    [][TrPollOfReplaced =>
         LET r == TrWholeRead(trFile) IN
         /\ trEmitted' = trEmitted \o r.out
         /\ trOffset' = r.offset]_vars

\* A poll after a replacement has passed the end of the new content
\* without emitting its first entry.
ReplacedContentSkipped ==
    /\ trTracked
    /\ trLastRead.kind \in {"read", "skip"}
    /\ trFile # <<>>
    /\ trOffset = FileSize(trFile)
    /\ trFile[1].id \notin TrEmittedIds
    /\ trEmitted # <<>>
    /\ trFile[1].id > trEmitted[1]

(***************************************************************************)
(* resolve_stale_ids and shared display names (C39)                        *)
(***************************************************************************)

\* No two threads of one user are bound to the same window.
RsBindingsInjective(tb) ==
    \A u \in DOMAIN tb : \A t1, t2 \in DOMAIN tb[u] :
       t1 # t2 => tb[u][t1] # tb[u][t2]

\* The keys under which _resolve_window_states files the persisted window
\* state k when it is the only one.
RsRekeyOf(k) ==
    DOMAIN _resolve_window_states([x \in {k} |-> rsStates[x]], rsNames,
                                  LiveByName(rsLive), LiveIds(rsLive)).states

\* C39: after resolve_stale_ids on a state in which the topics of a user
\* are bound to distinct windows, no two topics of the user are bound to
\* the same window, and no two persisted windows are filed under the same
\* live window id.
ResolveKeepsWindowsDistinct ==
    rsPc = "resolved" =>
      /\ RsBindingsInjective(rsBindings)
            => RsBindingsInjective(rsOut.thread_bindings)
      /\ \A k1, k2 \in DOMAIN rsStates :
            k1 # k2 => RsRekeyOf(k1) \cap RsRekeyOf(k2) = {}

\* Two topics bound to two windows of one display name, one of them
\* stale, are both bound to the live window after the resolve.
TwoTopicsOnOneWindowAfterResolve ==
    /\ rsPc = "resolved"
    /\ RsBindingsInjective(rsBindings)
    /\ 100 \in DOMAIN rsOut.thread_bindings
    /\ DOMAIN rsOut.thread_bindings[100] = {1, 2}
    /\ rsOut.thread_bindings[100][1] = rsOut.thread_bindings[100][2]
    /\ \A t \in {1, 2} : is_window_id(rsBindings[100][t])

(***************************************************************************)
(* SessionMonitor.record_hook_activity (C40)                               *)
(* A key string is modelled as the sequence of its parts between colons:   *)
(* "ccbot:@1" is <<"ccbot", "@1">>, "@1" is <<"@1">>.  parse_session_map   *)
(* lives in session.py and is modelled from tests/ccbot/test_session.py    *)
(* and tests/ccbot/test_state_migration.py.                                *)
(***************************************************************************)

HaWindows == {"@1", "@2"}
HaSessions == {"s1", "s2"}
HaPrefixes == {"ccbot", "other"}

\* parse_session_map(raw, prefix): the entries of this tmux session, keyed
\* by what follows the prefix "tmux_session:".
parse_session_map(raw, prefix) ==
    LET keys == {k \in DOMAIN raw : k[1] = prefix}
    IN [k \in {Tail(rk) : rk \in keys} |-> raw[<<prefix>> \o k]]

\* sid.endswith(f":{window_id}")
EndsWithColonWindow(key, window_id) ==
    Len(key) >= 2 /\ key[Len(key)] = window_id

\* record_hook_activity: the first key of the last session map that ends
\* with ":window_id" gives the session whose activity is stamped.
record_hook_activity(map, activity, window_id, now) ==
    LET hits == {k \in DOMAIN map : EndsWithColonWindow(k, window_id)}
    IN IF hits = {} THEN activity
       ELSE Put(activity, map[CHOOSE k \in hits : TRUE], now)

HaInit ==
    /\ haRaw = EmptyDict
    /\ haLastMap = EmptyDict
    /\ haActivity = EmptyDict
    /\ haNow = 1
    /\ haLast = [op |-> "none", w |-> ""]

HaTick ==
    /\ haNow < MaxHaTime
    /\ haNow' = haNow + 1
    /\ haLast' = [op |-> "tick", w |-> ""]
    /\ UNCHANGED <<haRaw, haLastMap, haActivity>>
    /\ UNCHANGED nonHaVars

\* A SessionStart hook of some tmux session upserts its window's entry.
HaHookUpsert(prefix, w, sid) ==
    /\ haRaw' = Put(haRaw, <<prefix, w>>, sid)
    /\ haLast' = [op |-> "upsert", w |-> w]
    /\ UNCHANGED <<haLastMap, haActivity, haNow>>
    /\ UNCHANGED nonHaVars

\* _detect_and_cleanup_changes: the map is loaded, the activity of the
\* sessions that left their window is dropped, and the loaded map becomes
\* the last session map.
HaDetect ==
    /\ LET cur == parse_session_map(haRaw, tmux_session_name)
           gone == {haLastMap[k] : k \in
                      {x \in DOMAIN haLastMap :
                          x \notin DOMAIN cur \/ cur[x] # haLastMap[x]}}
       IN /\ haLastMap' = cur
          /\ haActivity' = [s \in DOMAIN haActivity \ gone |-> haActivity[s]]
    /\ haLast' = [op |-> "detect", w |-> ""]
    /\ UNCHANGED <<haRaw, haNow>>
    /\ UNCHANGED nonHaVars

\* _process_session_file read new entries of the session of window w.
HaTranscriptActivity(w) ==
    /\ <<w>> \in DOMAIN haLastMap
    /\ haActivity' = Put(haActivity, haLastMap[<<w>>], haNow)
    /\ haLast' = [op |-> "transcript", w |-> w]
    /\ UNCHANGED <<haRaw, haLastMap, haNow>>
    /\ UNCHANGED nonHaVars

\* A hook event of window w reaches the dispatcher, which calls
\* record_hook_activity(w).
HaRecordHookActivity(w) ==
    /\ haActivity' = record_hook_activity(haLastMap, haActivity, w, haNow)
    /\ haLast' = [op |-> "record", w |-> w]
    /\ UNCHANGED <<haRaw, haLastMap, haNow>>
    /\ UNCHANGED nonHaVars

HaNext ==
    \/ HaTick
    \/ \E p \in HaPrefixes, w \in HaWindows, sid \in HaSessions :
          HaHookUpsert(p, w, sid)
    \/ HaDetect
    \/ \E w \in HaWindows : HaTranscriptActivity(w)
    \/ \E w \in HaWindows : HaRecordHookActivity(w)

\* C40: record_hook_activity(w) stamps the session the last session map
\* holds for window w with the current time whenever the map holds the
\* window, and changes the activity of no other session.
HookActivityRecordedForWindow ==
    [][haLast'.op = "record" =>
         LET w == haLast'.w IN
         /\ <<w>> \in DOMAIN haLastMap =>
               /\ haLastMap[<<w>>] \in DOMAIN haActivity'
               /\ haActivity'[haLastMap[<<w>>]] = haNow
         /\ \A s \in HaSessions :
               (<<w>> \notin DOMAIN haLastMap \/ s # haLastMap[<<w>>])
                  => /\ (s \in DOMAIN haActivity') = (s \in DOMAIN haActivity)
                     /\ s \in DOMAIN haActivity
                           => haActivity'[s] = haActivity[s]]_vars

\* record_hook_activity has just run for a window of the last session
\* map and the window's session has no activity stamp.
HookActivityNotRecorded ==
    /\ haLast.op = "record"
    /\ <<haLast.w>> \in DOMAIN haLastMap
    /\ haLastMap[<<haLast.w>>] \notin DOMAIN haActivity

(***************************************************************************)
(* Specifications                                                          *)
(***************************************************************************)
InitMonitor ==
    /\ MonInit
    /\ TrInit
    /\ RsIdle
    /\ SmInit
    /\ MqInit
    /\ RlInit
    /\ HmIdle
    /\ HkIdle
    /\ StIdle
    /\ PmInit
    /\ SpInit
    /\ LpIdle
    /\ DcIdle
    /\ AcIdle
    /\ UbIdle
    /\ TpIdle
    /\ IuIdle
    /\ BcInit
    /\ HwIdle
    /\ HaInit
SpecMonitor == InitMonitor /\ [][MonNext]_vars

InitLoops ==
    /\ LoopsInit
    /\ TrInit
    /\ RsIdle
    /\ SmInit
    /\ MqInit
    /\ RlInit
    /\ HmIdle
    /\ HkIdle
    /\ StIdle
    /\ PmInit
    /\ SpInit
    /\ LpIdle
    /\ DcIdle
    /\ AcIdle
    /\ UbIdle
    /\ TpIdle
    /\ IuIdle
    /\ BcInit
    /\ HwIdle
    /\ HaInit
SpecLoops == InitLoops /\ [][LoopsNext]_vars

InitEvents ==
    /\ MonInit
    /\ TrInit
    /\ RsIdle
    /\ SmInit
    /\ MqInit
    /\ RlInit
    /\ HmIdle
    /\ HkIdle
    /\ StIdle
    /\ PmInit
    /\ SpInit
    /\ LpIdle
    /\ DcIdle
    /\ AcIdle
    /\ UbIdle
    /\ TpIdle
    /\ IuIdle
    /\ BcInit
    /\ HwIdle
    /\ HaInit
SpecEvents == InitEvents /\ [][EvNextTwoPiece]_vars

InitTranscript ==
    /\ TrInit
    /\ MonInit
    /\ RsIdle
    /\ SmInit
    /\ MqInit
    /\ RlInit
    /\ HmIdle
    /\ HkIdle
    /\ StIdle
    /\ PmInit
    /\ SpInit
    /\ LpIdle
    /\ DcIdle
    /\ AcIdle
    /\ UbIdle
    /\ TpIdle
    /\ IuIdle
    /\ BcInit
    /\ HwIdle
    /\ HaInit
SpecTranscript == InitTranscript /\ [][TrNext]_vars

InitTranscriptNoFault ==
    /\ TrInit
    /\ MonInit
    /\ RsIdle
    /\ SmInit
    /\ MqInit
    /\ RlInit
    /\ HmIdle
    /\ HkIdle
    /\ StIdle
    /\ PmInit
    /\ SpInit
    /\ LpIdle
    /\ DcIdle
    /\ AcIdle
    /\ UbIdle
    /\ TpIdle
    /\ IuIdle
    /\ BcInit
    /\ HwIdle
    /\ HaInit
SpecTranscriptNoFault == InitTranscriptNoFault /\ [][TrNextNoFault]_vars

InitTranscriptAppend ==
    /\ TrInit
    /\ MonInit
    /\ RsIdle
    /\ SmInit
    /\ MqInit
    /\ RlInit
    /\ HmIdle
    /\ HkIdle
    /\ StIdle
    /\ PmInit
    /\ SpInit
    /\ LpIdle
    /\ DcIdle
    /\ AcIdle
    /\ UbIdle
    /\ TpIdle
    /\ IuIdle
    /\ BcInit
    /\ HwIdle
    /\ HaInit
SpecTranscriptAppend == InitTranscriptAppend /\ [][TrNextAppend]_vars

InitTranscriptLive ==
    /\ TrInit
    /\ MonInit
    /\ RsIdle
    /\ SmInit
    /\ MqInit
    /\ RlInit
    /\ HmIdle
    /\ HkIdle
    /\ StIdle
    /\ PmInit
    /\ SpInit
    /\ LpIdle
    /\ DcIdle
    /\ AcIdle
    /\ UbIdle
    /\ TpIdle
    /\ IuIdle
    /\ BcInit
    /\ HwIdle
    /\ HaInit
SpecTranscriptLive == InitTranscriptLive /\ [][TrNextAppend]_vars /\ WF_vars(ProcessSessionFile("ok", "ok"))

InitTranscriptReplace ==
    /\ TrInit
    /\ MonInit
    /\ RsIdle
    /\ SmInit
    /\ MqInit
    /\ RlInit
    /\ HmIdle
    /\ HkIdle
    /\ StIdle
    /\ PmInit
    /\ SpInit
    /\ LpIdle
    /\ DcIdle
    /\ AcIdle
    /\ UbIdle
    /\ TpIdle
    /\ IuIdle
    /\ BcInit
    /\ HwIdle
    /\ HaInit
SpecTranscriptReplace == InitTranscriptReplace /\ [][TrNextReplace]_vars

InitResolve ==
    /\ RsInit
    /\ MonInit
    /\ TrInit
    /\ SmInit
    /\ MqInit
    /\ RlInit
    /\ HmIdle
    /\ HkIdle
    /\ StIdle
    /\ PmInit
    /\ SpInit
    /\ LpIdle
    /\ DcIdle
    /\ AcIdle
    /\ UbIdle
    /\ TpIdle
    /\ IuIdle
    /\ BcInit
    /\ HwIdle
    /\ HaInit
SpecResolve == InitResolve /\ [][RsNext]_vars

InitSession ==
    /\ SmInit
    /\ MonInit
    /\ TrInit
    /\ RsIdle
    /\ MqInit
    /\ RlInit
    /\ HmIdle
    /\ HkIdle
    /\ StIdle
    /\ PmInit
    /\ SpInit
    /\ LpIdle
    /\ DcIdle
    /\ AcIdle
    /\ UbIdle
    /\ TpIdle
    /\ IuIdle
    /\ BcInit
    /\ HwIdle
    /\ HaInit
SpecSession == InitSession /\ [][SmNext]_vars

InitQueue ==
    /\ MqInit
    /\ MonInit
    /\ TrInit
    /\ RsIdle
    /\ SmInit
    /\ RlInit
    /\ HmIdle
    /\ HkIdle
    /\ StIdle
    /\ PmInit
    /\ SpInit
    /\ LpIdle
    /\ DcIdle
    /\ AcIdle
    /\ UbIdle
    /\ TpIdle
    /\ IuIdle
    /\ BcInit
    /\ HwIdle
    /\ HaInit
SpecQueue == InitQueue /\ [][MqNext]_vars

InitRateLimit ==
    /\ RlInit
    /\ MonInit
    /\ TrInit
    /\ RsIdle
    /\ SmInit
    /\ MqInit
    /\ HmIdle
    /\ HkIdle
    /\ StIdle
    /\ PmInit
    /\ SpInit
    /\ LpIdle
    /\ DcIdle
    /\ AcIdle
    /\ UbIdle
    /\ TpIdle
    /\ IuIdle
    /\ BcInit
    /\ HwIdle
    /\ HaInit
SpecRateLimit == InitRateLimit /\ [][RlNext]_vars

InitSessionMap ==
    /\ HmInit
    /\ MonInit
    /\ TrInit
    /\ RsIdle
    /\ SmInit
    /\ MqInit
    /\ RlInit
    /\ HkIdle
    /\ StIdle
    /\ PmInit
    /\ SpInit
    /\ LpIdle
    /\ DcIdle
    /\ AcIdle
    /\ UbIdle
    /\ TpIdle
    /\ IuIdle
    /\ BcInit
    /\ HwIdle
    /\ HaInit
SpecSessionMap == InitSessionMap /\ [][HmNext]_vars

InitHook ==
    /\ HkInit
    /\ MonInit
    /\ TrInit
    /\ RsIdle
    /\ SmInit
    /\ MqInit
    /\ RlInit
    /\ HmIdle
    /\ StIdle
    /\ PmInit
    /\ SpInit
    /\ LpIdle
    /\ DcIdle
    /\ AcIdle
    /\ UbIdle
    /\ TpIdle
    /\ IuIdle
    /\ BcInit
    /\ HwIdle
    /\ HaInit
SpecHook == InitHook /\ [][HkNext]_vars

InitStatus ==
    /\ StInit
    /\ MonInit
    /\ TrInit
    /\ RsIdle
    /\ SmInit
    /\ MqInit
    /\ RlInit
    /\ HmIdle
    /\ HkIdle
    /\ PmInit
    /\ SpInit
    /\ LpIdle
    /\ DcIdle
    /\ AcIdle
    /\ UbIdle
    /\ TpIdle
    /\ IuIdle
    /\ BcInit
    /\ HwIdle
    /\ HaInit
SpecStatus == InitStatus /\ [][StNext]_vars

InitPrune ==
    /\ PmInit
    /\ MonInit
    /\ TrInit
    /\ RsIdle
    /\ SmInit
    /\ MqInit
    /\ RlInit
    /\ HmIdle
    /\ HkIdle
    /\ StIdle
    /\ SpInit
    /\ LpIdle
    /\ DcIdle
    /\ AcIdle
    /\ UbIdle
    /\ TpIdle
    /\ IuIdle
    /\ BcInit
    /\ HwIdle
    /\ HaInit
SpecPrune == InitPrune /\ [][PmNext]_vars

InitPersist ==
    /\ SpInit
    /\ MonInit
    /\ TrInit
    /\ RsIdle
    /\ SmInit
    /\ MqInit
    /\ RlInit
    /\ HmIdle
    /\ HkIdle
    /\ StIdle
    /\ PmInit
    /\ LpIdle
    /\ DcIdle
    /\ AcIdle
    /\ UbIdle
    /\ TpIdle
    /\ IuIdle
    /\ BcInit
    /\ HwIdle
    /\ HaInit
SpecPersist == InitPersist /\ [][SpNext]_vars

InitLaunch ==
    /\ LpInit
    /\ MonInit
    /\ TrInit
    /\ RsIdle
    /\ SmInit
    /\ MqInit
    /\ RlInit
    /\ HmIdle
    /\ HkIdle
    /\ StIdle
    /\ PmInit
    /\ SpInit
    /\ DcIdle
    /\ AcIdle
    /\ UbIdle
    /\ TpIdle
    /\ IuIdle
    /\ BcInit
    /\ HwIdle
    /\ HaInit
SpecLaunch == InitLaunch /\ [][LpNext]_vars

InitDetect ==
    /\ DcInit
    /\ MonInit
    /\ TrInit
    /\ RsIdle
    /\ SmInit
    /\ MqInit
    /\ RlInit
    /\ HmIdle
    /\ HkIdle
    /\ StIdle
    /\ PmInit
    /\ SpInit
    /\ LpIdle
    /\ AcIdle
    /\ UbIdle
    /\ TpIdle
    /\ IuIdle
    /\ BcInit
    /\ HwIdle
    /\ HaInit
SpecDetect == InitDetect /\ [][DcNext]_vars

InitAutoclose ==
    /\ AcInit
    /\ MonInit
    /\ TrInit
    /\ RsIdle
    /\ SmInit
    /\ MqInit
    /\ RlInit
    /\ HmIdle
    /\ HkIdle
    /\ StIdle
    /\ PmInit
    /\ SpInit
    /\ LpIdle
    /\ DcIdle
    /\ UbIdle
    /\ TpIdle
    /\ IuIdle
    /\ BcInit
    /\ HwIdle
    /\ HaInit
SpecAutoclose == InitAutoclose /\ [][AcNext]_vars

InitUnboundTtl ==
    /\ UbInit
    /\ MonInit
    /\ TrInit
    /\ RsIdle
    /\ SmInit
    /\ MqInit
    /\ RlInit
    /\ HmIdle
    /\ HkIdle
    /\ StIdle
    /\ PmInit
    /\ SpInit
    /\ LpIdle
    /\ DcIdle
    /\ AcIdle
    /\ TpIdle
    /\ IuIdle
    /\ BcInit
    /\ HwIdle
    /\ HaInit
SpecUnboundTtl == InitUnboundTtl /\ [][UbNext]_vars

InitTopicProbe ==
    /\ TpInit
    /\ MonInit
    /\ TrInit
    /\ RsIdle
    /\ SmInit
    /\ MqInit
    /\ RlInit
    /\ HmIdle
    /\ HkIdle
    /\ StIdle
    /\ PmInit
    /\ SpInit
    /\ LpIdle
    /\ DcIdle
    /\ AcIdle
    /\ UbIdle
    /\ IuIdle
    /\ BcInit
    /\ HwIdle
    /\ HaInit
SpecTopicProbe == InitTopicProbe /\ [][TpNext]_vars

InitInteractive ==
    /\ IuInit
    /\ MonInit
    /\ TrInit
    /\ RsIdle
    /\ SmInit
    /\ MqInit
    /\ RlInit
    /\ HmIdle
    /\ HkIdle
    /\ StIdle
    /\ PmInit
    /\ SpInit
    /\ LpIdle
    /\ DcIdle
    /\ AcIdle
    /\ UbIdle
    /\ TpIdle
    /\ BcInit
    /\ HwIdle
    /\ HaInit
SpecInteractive == InitInteractive /\ [][IuNext]_vars

InitBashCapture ==
    /\ BcInit
    /\ MonInit
    /\ TrInit
    /\ RsIdle
    /\ SmInit
    /\ MqInit
    /\ RlInit
    /\ HmIdle
    /\ HkIdle
    /\ StIdle
    /\ PmInit
    /\ SpInit
    /\ LpIdle
    /\ DcIdle
    /\ AcIdle
    /\ UbIdle
    /\ TpIdle
    /\ IuIdle
    /\ HwIdle
    /\ HaInit
SpecBashCapture == InitBashCapture /\ [][BcNext]_vars

InitHookWriters ==
    /\ HwInit
    /\ MonInit
    /\ TrInit
    /\ RsIdle
    /\ SmInit
    /\ MqInit
    /\ RlInit
    /\ HmIdle
    /\ HkIdle
    /\ StIdle
    /\ PmInit
    /\ SpInit
    /\ LpIdle
    /\ DcIdle
    /\ AcIdle
    /\ UbIdle
    /\ TpIdle
    /\ IuIdle
    /\ BcInit
    /\ HaInit
SpecHookWriters == InitHookWriters /\ [][HwNext]_vars

InitHookActivity ==
    /\ HaInit
    /\ MonInit
    /\ TrInit
    /\ RsIdle
    /\ SmInit
    /\ MqInit
    /\ RlInit
    /\ HmIdle
    /\ HkIdle
    /\ StIdle
    /\ PmInit
    /\ SpInit
    /\ LpIdle
    /\ DcIdle
    /\ AcIdle
    /\ UbIdle
    /\ TpIdle
    /\ IuIdle
    /\ BcInit
    /\ HwIdle
SpecHookActivity == InitHookActivity /\ [][HaNext]_vars

====
